---- MODULE Spec2Model ----
(***************************************************************************)
(* A model of the BN254 pairing library (BIG/FP/FP2/FP4/FP12, ECP, ECP2,    *)
(* PAIR).                                                                    *)
(*                                                                           *)
(* The algorithms are translated operation by operation from the sources.   *)
(* The curve is instantiated with the smallest member of the same           *)
(* Barreto-Naehrig family: the ROM parameter CURVE_Bnx is 1 instead of      *)
(* 0x4080000000000001, which gives the 5-bit modulus 19 and the group order *)
(* 13 instead of the 254-bit values, with the same tower (i^2 = -1,         *)
(* j^2 = 1+i, cubic extension over FP4), the same curve constant            *)
(* CURVE_B_I = 2, the same D-type sextic twist and the same G1 generator    *)
(* (-1, 1).  Field elements are held as canonical residues: the Montgomery  *)
(* form, the limb vectors and the excess counter XES of the sources are a   *)
(* representation of that residue and are not part of this model.          *)
(***************************************************************************)
EXTENDS Integers, Sequences, FiniteSets, TLC

\* pc:  the position of the operation under study ("start" or "done")
\* in:  its arguments
\* out: its results
\* bnx: the ROM word CURVE_Bnx that PAIR.lbits and PAIR.fexp read
VARIABLES pc, in, out, bnx

vars == <<pc, in, out, bnx>>

(***************************************************************************)
(* ROM_CURVE / ROM_FIELD                                                    *)
(***************************************************************************)
\* BN parameter x of the curve family (sign negative: u = -x)
CURVE_Bnx == 1

\* p = 36u^4 - 36u^3 + 24u^2 - 6u + 1
Modulus == 36 * CURVE_Bnx^4 - 36 * CURVE_Bnx^3 + 24 * CURVE_Bnx^2 - 6 * CURVE_Bnx + 1

\* r = 36u^4 - 36u^3 + 18u^2 - 6u + 1
CURVE_Order == 36 * CURVE_Bnx^4 - 36 * CURVE_Bnx^3 + 18 * CURVE_Bnx^2 - 6 * CURVE_Bnx + 1

CURVE_B_I == 2

CURVE_Gx == Modulus - 1

CURVE_Gy == 1

\* the G2 generator ((Pxa, Pxb), (Pya, Pyb)) on the twist
CURVE_Pxa == 7

CURVE_Pxb == 18

CURVE_Pya == 11

CURVE_Pyb == 8

\* Val(S) is the element of the one-element set S.  An operator written
\*     Op(x_) == Val({ e : x \in {x_} })
\* is Op(x_) == e with x_ for x: the parameter is evaluated once, on entry,
\* as the argument of a function call is in the sources.
Val(S) == CHOOSE r \in S : TRUE

\* Run(prog, V, lo, hi) executes the statements lo .. hi of the routine prog
\* on the local variables V; it is defined after the routines.
RECURSIVE Run(_, _, _, _)

(***************************************************************************)
(* BIG: the operations on non-negative integers that the callers use        *)
(***************************************************************************)
RECURSIVE BIG_nbits(_)
BIG_nbits(x) == IF x = 0 THEN 0 ELSE 1 + BIG_nbits(x \div 2)

BIG_parity(x) == x % 2

BIG_bit(x, n) == (x \div 2^n) % 2

BIG_lastbits(x, n) == x % 2^n

BIG_comp(a, b) == IF a = b THEN 0 ELSE IF a > b THEN 1 ELSE -1

\* the inner loop "while (x.parity() === 0) { k++; x.shr(1); }"
RECURSIVE BIG_jacobi_twos(_)
BIG_jacobi_twos(x) == IF x % 2 = 0 THEN 1 + BIG_jacobi_twos(x \div 2) ELSE 0

RECURSIVE BIG_jacobi_odd(_)
BIG_jacobi_odd(x) == IF x % 2 = 0 THEN BIG_jacobi_odd(x \div 2) ELSE x

RECURSIVE BIG_jacobi_loop(_, _, _)
BIG_jacobi_loop(x_, n_, m_) ==
    Val({(
    IF BIG_comp(n, 1) > 0
    THEN IF BIG_comp(x, 0) = 0
         THEN 0
         ELSE LET n8 == BIG_lastbits(n, 3)
                  k  == BIG_jacobi_twos(x)
                  xo == BIG_jacobi_odd(x)
                  m1 == IF k % 2 = 1 THEN m + ((n8 * n8 - 1) \div 8) ELSE m
                  m2 == m1 + (((n8 - 1) * (BIG_lastbits(xo, 2) - 1)) \div 4)
              IN  BIG_jacobi_loop(n % xo, xo, m2 % 2)
    ELSE IF m = 0 THEN 1 ELSE -1
    ) : x \in {x_}, n \in {n_}, m \in {m_}})

BIG_jacobi(a_, p_) ==
    Val({(
    IF BIG_parity(p) = 0 \/ BIG_comp(a, 0) = 0 \/ BIG_comp(p, 1) <= 0
    THEN 0
    ELSE BIG_jacobi_loop(a % p, p, 0)
    ) : a \in {a_}, p \in {p_}})

(***************************************************************************)
(* FP: the prime field, elements are residues 0 .. Modulus-1                *)
(***************************************************************************)
FP_nres(x) == x % Modulus

FP_redc(a) == a % Modulus

FP_iszilch(a) == a % Modulus = 0

FP_equals(a, b) == BIG_comp(a % Modulus, b % Modulus) = 0

FP_add(a, b) == (a + b) % Modulus

FP_neg(a) == (Modulus - a) % Modulus

FP_sub(a, b) == FP_add(a, FP_neg(b))

FP_mul(a, b) == (a * b) % Modulus

FP_sqr(a_) == Val({(a * a) % Modulus : a \in {a_}})

FP_imul(a_, c_) ==
    Val({IF c < 0 THEN FP_neg((a * (-c)) % Modulus) ELSE (a * c) % Modulus : a \in {a_}, c \in {c_}})

FP_div2(a_) == Val({IF BIG_parity(a) = 0 THEN a \div 2 ELSE (a + Modulus) \div 2 : a \in {a_}})

\* tb[i] of FP.pow: tb[0] = 1, tb[1] = this, tb[i] = tb[i-1] * this
RECURSIVE FP_pow_tb(_, _)
FP_pow_tb(a, i) == IF i = 0 THEN FP_nres(1) ELSE IF i = 1 THEN a ELSE FP_mul(FP_pow_tb(a, i - 1), a)

\* w[i] of FP.pow: the i-th 4-bit digit of the exponent
FP_pow_w(e, i) == BIG_lastbits(e \div 16^i, 4)

RECURSIVE FP_pow_loop(_, _, _, _)
FP_pow_loop(r_, a_, e_, i_) ==
    Val({(
    IF i < 0 THEN r
    ELSE LET r1 == FP_mul(FP_sqr(FP_sqr(FP_sqr(FP_sqr(r)))), FP_pow_tb(a, FP_pow_w(e, i)))
         IN  FP_pow_loop(r1, a, e, i - 1)
    ) : r \in {r_}, a \in {a_}, e \in {e_}, i \in {i_}})

FP_pow(a_, e_) ==
    Val({(
    LET nb == 1 + ((BIG_nbits(e) + 3) \div 4)
    IN  FP_pow_loop(FP_pow_tb(a, FP_pow_w(e, nb - 1)), a, e, nb - 2)
    ) : a \in {a_}, e \in {e_}})

FP_inverse(a) == FP_pow(a, Modulus - 2)

FP_jacobi(a) == BIG_jacobi(FP_redc(a), Modulus)

FP_sqrt(a) == FP_pow(a, (Modulus + 1) \div 4)

(***************************************************************************)
(* FP2 = FP[i]/(i^2+1), elements are pairs <<a, b>> = a + i.b               *)
(***************************************************************************)
FP2_new(c, d) == <<FP_nres(c), FP_nres(d)>>

FP2_zero == <<0, 0>>

FP2_one == <<FP_nres(1), 0>>

FP2_iszilch(x_) == Val({FP_iszilch(x[1]) /\ FP_iszilch(x[2]) : x \in {x_}})

FP2_equals(x_, y_) == Val({FP_equals(x[1], y[1]) /\ FP_equals(x[2], y[2]) : x \in {x_}, y \in {y_}})

FP2_neg(x_) ==
    Val({(
    LET m == FP_neg(FP_add(x[1], x[2]))
        t == FP_add(m, x[2])
    IN  <<t, FP_add(m, x[1])>>
    ) : x \in {x_}})

FP2_conj(x_) == Val({<<x[1], FP_neg(x[2])>> : x \in {x_}})

FP2_add(x_, y_) == Val({<<FP_add(x[1], y[1]), FP_add(x[2], y[2])>> : x \in {x_}, y \in {y_}})

FP2_sub(x, y) == FP2_add(x, FP2_neg(y))

FP2_pmul(x_, s_) == Val({<<FP_mul(x[1], s), FP_mul(x[2], s)>> : x \in {x_}, s \in {s_}})

FP2_imul(x_, c_) == Val({<<FP_imul(x[1], c), FP_imul(x[2], c)>> : x \in {x_}, c \in {c_}})

FP2_sqr(x_) ==
    Val({(
    LET w1 == FP_add(x[1], x[2])
        w3 == FP_add(x[1], x[1])
    IN  <<FP_mul(FP_sub(x[1], x[2]), w1), FP_mul(x[2], w3)>>
    ) : x \in {x_}})

FP2_mul(x_, y_) ==
    Val({(
    LET C == x[1] + x[2]
        D == y[1] + y[2]
        E == C * D
        A == x[1] * y[1]
        B == x[2] * y[2]
        F == A + B
        pR == Modulus * Modulus
    IN  <<(A + (pR - B)) % Modulus, (E - F) % Modulus>>
    ) : x \in {x_}, y \in {y_}})

FP2_inverse(x_) ==
    Val({(
    LET w2 == FP_sqr(x[2])
        w1 == FP_inverse(FP_add(FP_sqr(x[1]), w2))
    IN  <<FP_mul(x[1], w1), FP_mul(x[2], FP_neg(w1))>>
    ) : x \in {x_}})

FP2_div2(x_) == Val({<<FP_div2(x[1]), FP_div2(x[2])>> : x \in {x_}})

FP2_times_i(x_) == Val({<<FP_neg(x[2]), x[1]>> : x \in {x_}})

FP2_mul_ip(x_) == Val({FP2_add(<<FP_neg(x[2]), x[1]>>, x) : x \in {x_}})

FP2_div_ip2(x_) == Val({<<FP_add(x[1], x[2]), FP_sub(x[2], x[1])>> : x \in {x_}})

FP2_div_ip(x_) == Val({FP2_div2(<<FP_add(x[1], x[2]), FP_sub(x[2], x[1])>>) : x \in {x_}})

RECURSIVE FP2_pow_loop(_, _, _)
FP2_pow_loop(r_, x_, e_) ==
    Val({(
    LET r1 == IF BIG_parity(e) = 1 THEN FP2_mul(r, x) ELSE r
        e1 == e \div 2
        x1 == FP2_sqr(x)
    IN  IF e1 = 0 THEN r1 ELSE FP2_pow_loop(r1, x1, e1)
    ) : r \in {r_}, x \in {x_}, e \in {e_}})

FP2_pow(x, e) == FP2_pow_loop(FP2_one, x, e)

\* the Frobenius constant (1+i)^((p-1)/6) of ROM_FIELD, as <<Fra, Frb>>
Fra == FP2_pow(<<1, 1>>, (Modulus - 1) \div 6)[1]

Frb == FP2_pow(<<1, 1>>, (Modulus - 1) \div 6)[2]

(***************************************************************************)
(* FP4 = FP2[j]/(j^2-(1+i)), elements are pairs <<a, b>> of FP2 elements    *)
(***************************************************************************)
FP4_zero == <<FP2_zero, FP2_zero>>

FP4_one == <<FP2_one, FP2_zero>>

FP4_equals(x_, y_) ==
    Val({FP2_equals(x[1], y[1]) /\ FP2_equals(x[2], y[2]) : x \in {x_}, y \in {y_}})

FP4_neg(x_) ==
    Val({(
    LET m == FP2_neg(FP2_add(x[1], x[2]))
        t == FP2_add(m, x[2])
    IN  <<t, FP2_add(m, x[1])>>
    ) : x \in {x_}})

FP4_conj(x_) == Val({<<x[1], FP2_neg(x[2])>> : x \in {x_}})

FP4_nconj(x_) == Val({<<FP2_neg(x[1]), x[2]>> : x \in {x_}})

FP4_dbl(x_) == Val({<<FP2_add(x[1], x[1]), FP2_add(x[2], x[2])>> : x \in {x_}})

FP4_add(x_, y_) == Val({<<FP2_add(x[1], y[1]), FP2_add(x[2], y[2])>> : x \in {x_}, y \in {y_}})

FP4_sub(x, y) == FP4_add(x, FP4_neg(y))

FP4_pmul(x_, s_) == Val({<<FP2_mul(x[1], s), FP2_mul(x[2], s)>> : x \in {x_}, s \in {s_}})

FP4_sqr_stmt(V, k) ==
    CASE k = 1 -> [t1 |-> FP2_add(V.x[1], V.x[2])] @@ V
      [] k = 2 -> [t2 |-> FP2_add(FP2_mul_ip(V.x[2]), V.x[1])] @@ V
      [] k = 3 -> [t3 |-> FP2_mul(V.x[1], V.x[2])] @@ V
      [] k = 4 -> [a1 |-> FP2_mul(V.t1, V.t2)] @@ V
      [] k = 5 -> [t5 |-> FP2_add(FP2_mul_ip(V.t3), V.t3)] @@ V
      [] k = 6 -> [out |-> <<FP2_sub(V.a1, V.t5), FP2_add(V.t3, V.t3)>>] @@ V

FP4_sqr(x) == Run("FP4_sqr", [x |-> x], 1, 6).out

FP4_mul_stmt(V, k) ==
    CASE k = 1 -> [t1 |-> FP2_mul(V.x[1], V.y[1])] @@ V
      [] k = 2 -> [t2 |-> FP2_mul(V.x[2], V.y[2])] @@ V
      [] k = 3 -> [t3 |-> FP2_add(V.y[2], V.y[1])] @@ V
      [] k = 4 -> [t4 |-> FP2_sub(FP2_mul(FP2_add(V.x[2], V.x[1]), V.t3), V.t1)] @@ V
      [] k = 5 -> [out |-> <<FP2_add(FP2_mul_ip(V.t2), V.t1), FP2_sub(V.t4, V.t2)>>] @@ V

FP4_mul(x, y) == Run("FP4_mul", [x |-> x, y |-> y], 1, 5).out

FP4_inverse_stmt(V, k) ==
    CASE k = 1 -> [t1 |-> FP2_sqr(V.x[1])] @@ V
      [] k = 2 -> [t2 |-> FP2_mul_ip(FP2_sqr(V.x[2]))] @@ V
      [] k = 3 -> [t3 |-> FP2_inverse(FP2_sub(V.t1, V.t2))] @@ V
      [] k = 4 -> [out |-> <<FP2_mul(V.x[1], V.t3), FP2_mul(V.x[2], FP2_neg(V.t3))>>] @@ V

FP4_inverse(x) == Run("FP4_inverse", [x |-> x], 1, 4).out

FP4_times_i(x_) ==
    Val({(
    LET s == FP2_times_i(x[2])
        t == FP2_add(x[2], s)
    IN  <<t, x[1]>>
    ) : x \in {x_}})

FP4_frob(x_, f_) == Val({<<FP2_conj(x[1]), FP2_mul(FP2_conj(x[2]), f)>> : x \in {x_}, f \in {f_}})

(***************************************************************************)
(* FP12 = FP4[w]/(w^3-j), elements are records a + w.b + w^2.c with the     *)
(* sparsity tag stype                                                        *)
(***************************************************************************)
FP_ZERO == 0

FP_ONE == 1

FP_SPARSER == 2

FP_SPARSE == 3

FP_DENSE == 4

FP12_new(d_) == Val({[a |-> d.a, b |-> d.b, c |-> d.c, stype |-> FP_DENSE] : d \in {d_}})

FP12_one == [a |-> FP4_one, b |-> FP4_zero, c |-> FP4_zero, stype |-> FP_ONE]

FP12_equals(x_, y_) ==
    Val({FP4_equals(x.a, y.a) /\ FP4_equals(x.b, y.b) /\ FP4_equals(x.c, y.c) : x \in {x_}, y \in {y_}})

FP12_isunity(x_) ==
    Val({FP4_equals(x.a, FP4_one) /\ FP4_equals(x.b, FP4_zero) /\ FP4_equals(x.c, FP4_zero) : x \in {x_}})

FP12_conj(x_) ==
    Val({[a |-> FP4_conj(x.a), b |-> FP4_nconj(x.b), c |-> FP4_conj(x.c), stype |-> x.stype] : x \in {x_}})

FP12_usqr_stmt(V, k) ==
    CASE k = 1 -> [A0 |-> FP4_dbl(FP4_nconj(V.x.a))] @@ V
      [] k = 2 -> [B |-> FP4_times_i(FP4_sqr(V.x.c))] @@ V
      [] k = 3 -> [C |-> FP4_sqr(V.x.b)] @@ V
      [] k = 4 -> [a1 |-> FP4_sqr(V.x.a)] @@ V
      [] k = 5 -> [D0 |-> FP4_dbl(V.a1)] @@ V
      [] k = 6 -> [a2 |-> FP4_add(FP4_add(V.a1, V.D0), V.A0)] @@ V
      [] k = 7 -> [D |-> FP4_add(FP4_dbl(V.B), V.B)] @@ V
      [] k = 8 -> [A |-> FP4_add(FP4_dbl(V.C), V.C)] @@ V
      [] k = 9 -> [out |-> [a |-> V.a2,
                               b |-> FP4_add(FP4_dbl(FP4_conj(V.x.b)), V.D),
                               c |-> FP4_add(FP4_dbl(FP4_nconj(V.x.c)), V.A),
                               stype |-> FP_DENSE]] @@ V

FP12_usqr(x) == Run("FP12_usqr", [x |-> x], 1, 9).out

FP12_sqr_stmt(V, k) ==
    CASE k = 1 -> [A |-> FP4_sqr(V.x.a)] @@ V
      [] k = 2 -> [B |-> FP4_dbl(FP4_mul(V.x.b, V.x.c))] @@ V
      [] k = 3 -> [C |-> FP4_sqr(V.x.c)] @@ V
      [] k = 4 -> [D |-> FP4_dbl(FP4_mul(V.x.a, V.x.b))] @@ V
      [] k = 5 -> [c1 |-> FP4_sqr(FP4_add(FP4_add(V.x.c, V.x.a), V.x.b))] @@ V
      [] k = 6 -> [A1 |-> FP4_neg(FP4_add(FP4_add(FP4_add(V.A, V.B), V.C), V.D))] @@ V
      [] k = 7 -> [out |-> [a |-> FP4_add(V.A, FP4_times_i(V.B)),
                               b |-> FP4_add(FP4_times_i(V.C), V.D),
                               c |-> FP4_add(V.c1, V.A1),
                               stype |-> IF V.x.stype = FP_SPARSER THEN FP_SPARSE ELSE FP_DENSE]] @@ V

\* sqr that leaves stype as it was
FP12_sqr_keep(x_) ==
    Val({[a |-> r.a, b |-> r.b, c |-> r.c, stype |-> x.stype]
         : x \in {x_}, r \in {Run("FP12_sqr", [x |-> x_], 1, 7).out}})

FP12_sqr(x_) ==
    Val({ IF x.stype = FP_ONE THEN x ELSE Run("FP12_sqr", [x |-> x], 1, 7).out
         : x \in {x_} })

FP12_mul_stmt(V, k) ==
    CASE k = 1 -> [z0 |-> FP4_mul(V.x.a, V.y.a)] @@ V
      [] k = 2 -> [z2 |-> FP4_mul(V.x.b, V.y.b)] @@ V
      [] k = 3 -> [z1 |-> FP4_mul(FP4_add(V.x.a, V.x.b), FP4_add(V.y.a, V.y.b))] @@ V
      [] k = 4 -> [z3 |-> FP4_mul(FP4_add(V.x.b, V.x.c), FP4_add(V.y.b, V.y.c))] @@ V
      [] k = 5 -> [t0 |-> FP4_neg(V.z0)] @@ V
      [] k = 6 -> [t1 |-> FP4_neg(V.z2)] @@ V
      [] k = 7 -> [z1a |-> FP4_add(V.z1, V.t0)] @@ V
      [] k = 8 -> [b1 |-> FP4_add(V.z1a, V.t1)] @@ V
      [] k = 9 -> [z3a |-> FP4_add(V.z3, V.t1)] @@ V
      [] k = 10 -> [z2a |-> FP4_add(V.z2, V.t0)] @@ V
      [] k = 11 -> [t0b |-> FP4_mul(FP4_add(V.x.a, V.x.c), FP4_add(V.y.a, V.y.c))] @@ V
      [] k = 12 -> [z2b |-> FP4_add(V.z2a, V.t0b)] @@ V
      [] k = 13 -> [t0c |-> FP4_mul(V.x.c, V.y.c)] @@ V
      [] k = 14 -> [t1c |-> FP4_neg(V.t0c)] @@ V
      [] k = 15 -> [z3b |-> FP4_add(V.z3a, V.t1c)] @@ V
      [] k = 16 -> [out |-> [a |-> FP4_add(V.z0, FP4_times_i(V.z3b)),
                                b |-> FP4_add(V.b1, FP4_times_i(V.t0c)),
                                c |-> FP4_add(V.z2b, V.t1c),
                                stype |-> FP_DENSE]] @@ V

FP12_mul(x, y) == Run("FP12_mul", [x |-> x, y |-> y], 1, 16).out

\* both operands are line functions (SPARSER): a = <<a.a, a.b>>, b = <<b.a, 0>>, c = 0
FP12_smul_stmt(V, k) ==
    CASE k = 1 -> [w1 |-> FP2_mul(V.x.a[1], V.y.a[1])] @@ V
      [] k = 2 -> [w2 |-> FP2_mul(V.x.a[2], V.y.a[2])] @@ V
      [] k = 3 -> [w3 |-> FP2_mul(V.x.b[1], V.y.b[1])] @@ V
      [] k = 4 -> [tc |-> FP2_add(FP2_mul(FP2_add(V.x.a[1], V.x.a[2]), FP2_add(V.y.a[1], V.y.a[2])),
                              FP2_neg(FP2_add(V.w1, V.w2)))] @@ V
      [] k = 5 -> [td |-> FP2_add(FP2_mul(FP2_add(V.x.a[1], V.x.b[1]), FP2_add(V.y.a[1], V.y.b[1])),
                              FP2_neg(FP2_add(V.w1, V.w3)))] @@ V
      [] k = 6 -> [te |-> FP2_add(FP2_mul(FP2_add(V.x.a[2], V.x.b[1]), FP2_add(V.y.a[2], V.y.b[1])),
                              FP2_neg(FP2_add(V.w2, V.w3)))] @@ V
      [] k = 7 -> [w1a |-> FP2_add(V.w1, FP2_mul_ip(V.w2))] @@ V
      [] k = 8 -> [out |-> [a |-> <<V.w1a, V.tc>>, b |-> <<V.td, V.te>>, c |-> <<V.w3, FP2_zero>>, stype |-> FP_SPARSE]] @@ V

FP12_smul(x, y) == Run("FP12_smul", [x |-> x, y |-> y], 1, 8).out

\* the branch of ssmul for y.stype >= SPARSE
FP12_ssmul_dense_stmt(V, k) ==
    CASE k = 1 -> [z0 |-> FP4_mul(V.x.a, V.y.a)] @@ V
      [] k = 2 -> [z2 |-> FP4_mul(V.x.b, V.y.b)] @@ V
      [] k = 3 -> [z1 |-> FP4_mul(FP4_add(V.x.a, V.x.b), FP4_add(V.y.a, V.y.b))] @@ V
      [] k = 4 -> [z3 |-> FP4_mul(FP4_add(V.x.b, V.x.c), FP4_add(V.y.b, V.y.c))] @@ V
      [] k = 5 -> [t0 |-> FP4_neg(V.z0)] @@ V
      [] k = 6 -> [t1 |-> FP4_neg(V.z2)] @@ V
      [] k = 7 -> [z1a |-> FP4_add(FP4_add(V.z1, V.t0), V.t1)] @@ V
      [] k = 8 -> [z2a |-> FP4_add(V.z2, V.t0)] @@ V
      [] k = 9 -> [z3a |-> FP4_add(V.z3, V.t1)] @@ V
      [] k = 10 -> [t0b |-> FP4_mul(FP4_add(V.x.a, V.x.c), FP4_add(V.y.a, V.y.c))] @@ V
      [] k = 11 -> [z2b |-> FP4_add(V.z2a, V.t0b)] @@ V
      [] k = 12 -> [t0c |-> IF V.y.stype = FP_SPARSE \/ V.x.stype = FP_SPARSE
                                THEN LET ga  == FP2_mul(V.x.c[1], V.y.c[1])
                                         gb0 == FP2_zero
                                         gb1 == IF V.y.stype # FP_SPARSE THEN FP2_mul(V.x.c[1], V.y.c[2]) ELSE gb0
                                         gb2 == IF V.x.stype # FP_SPARSE THEN FP2_mul(V.x.c[2], V.y.c[1]) ELSE gb1
                                     IN  <<ga, gb2>>
                                ELSE FP4_mul(V.x.c, V.y.c)] @@ V
      [] k = 13 -> [t1c |-> FP4_neg(V.t0c)] @@ V
      [] k = 14 -> [out |-> [a |-> FP4_add(V.z0, FP4_times_i(FP4_add(V.z3a, V.t1c))),
                                b |-> FP4_add(V.z1a, FP4_times_i(V.t0c)),
                                c |-> FP4_add(V.z2b, V.t1c),
                                stype |-> FP_DENSE]] @@ V

FP12_ssmul_dense(x, y) == Run("FP12_ssmul_dense", [x |-> x, y |-> y], 1, 14).out

\* the branch of ssmul for a dense x and a line function y (SPARSER)
FP12_ssmul_sparser_stmt(V, k) ==
    CASE k = 1 -> [z0 |-> FP4_mul(V.x.a, V.y.a)] @@ V
      [] k = 2 -> [z2 |-> FP4_pmul(V.x.b, V.y.b[1])] @@ V
      [] k = 3 -> [z3 |-> FP4_pmul(FP4_add(V.x.b, V.x.c), V.y.b[1])] @@ V
      [] k = 4 -> [t1 |-> <<FP2_add(V.y.a[1], V.y.b[1]), V.y.a[2]>>] @@ V
      [] k = 5 -> [b1 |-> FP4_sub(FP4_sub(FP4_mul(FP4_add(V.x.b, V.x.a), V.t1), V.z0), V.z2)] @@ V
      [] k = 6 -> [z3a |-> FP4_add(FP4_times_i(FP4_sub(V.z3, V.z2)), V.z0)] @@ V
      [] k = 7 -> [t0 |-> FP4_mul(FP4_add(V.x.a, V.x.c), V.y.a)] @@ V
      [] k = 8 -> [out |-> [a |-> V.z3a, b |-> V.b1, c |-> FP4_add(FP4_sub(V.z2, V.z0), V.t0), stype |-> FP_DENSE]] @@ V

FP12_ssmul_sparser(x, y) == Run("FP12_ssmul_sparser", [x |-> x, y |-> y], 1, 8).out

\* ssmul without its branch for y.stype >= SPARSE: every y is taken for a line function
FP12_ssmul_lines(x_, y_) ==
    Val({(
    IF x.stype = FP_ONE THEN y
    ELSE IF y.stype = FP_ONE THEN x
    ELSE IF x.stype = FP_SPARSER THEN FP12_smul(x, y)
    ELSE FP12_ssmul_sparser(x, y)
    ) : x \in {x_}, y \in {y_}})

FP12_ssmul(x_, y_) ==
    Val({(
    IF x.stype = FP_ONE THEN y
    ELSE IF y.stype = FP_ONE THEN x
    ELSE IF y.stype >= FP_SPARSE THEN FP12_ssmul_dense(x, y)
    ELSE IF x.stype = FP_SPARSER THEN FP12_smul(x, y)
    ELSE FP12_ssmul_sparser(x, y)
    ) : x \in {x_}, y \in {y_}})

FP12_inverse_stmt(V, k) ==
    CASE k = 1 -> [f0 |-> FP4_sub(FP4_sqr(V.x.a), FP4_times_i(FP4_mul(V.x.b, V.x.c)))] @@ V
      [] k = 2 -> [f1 |-> FP4_sub(FP4_times_i(FP4_sqr(V.x.c)), FP4_mul(V.x.a, V.x.b))] @@ V
      [] k = 3 -> [f2 |-> FP4_sub(FP4_sqr(V.x.b), FP4_mul(V.x.a, V.x.c))] @@ V
      [] k = 4 -> [f3 |-> FP4_times_i(FP4_mul(V.x.b, V.f2))] @@ V
      [] k = 5 -> [a1 |-> FP4_mul(V.x.a, V.f0)] @@ V
      [] k = 6 -> [c1 |-> FP4_times_i(FP4_mul(V.x.c, V.f1))] @@ V
      [] k = 7 -> [f4 |-> FP4_inverse(FP4_add(FP4_add(V.f3, V.a1), V.c1))] @@ V
      [] k = 8 -> [out |-> [a |-> FP4_mul(V.f0, V.f4), b |-> FP4_mul(V.f1, V.f4), c |-> FP4_mul(V.f2, V.f4), stype |-> FP_DENSE]] @@ V

FP12_inverse(x) == Run("FP12_inverse", [x |-> x], 1, 8).out

FP12_frob(x_, f_) ==
    Val({(
    LET f2 == FP2_sqr(f)
        f3 == FP2_mul(f, f2)
    IN  [a |-> FP4_frob(x.a, f3),
           b |-> FP4_pmul(FP4_frob(x.b, f3), f),
           c |-> FP4_pmul(FP4_frob(x.c, f3), f2),
           stype |-> FP_DENSE]
    ) : x \in {x_}, f \in {f_}})

\* the body of the loop of FP12.pow at position V.i
FP12_pow_iter_stmt(V, k) ==
    CASE k = 1 -> [w |-> FP12_usqr(V.w)] @@ V
      [] k = 2 -> [bt |-> BIG_bit(V.e3, V.i) - BIG_bit(V.e1, V.i)] @@ V
      [] k = 3 -> IF V.bt = 1 THEN [w |-> FP12_mul(V.w, V.sf)] @@ V ELSE V
      [] k = 4 -> IF V.bt = -1 THEN [sf |-> FP12_conj(V.sf)] @@ V ELSE V
      [] k = 5 -> IF V.bt = -1 THEN [w |-> FP12_mul(V.w, V.sf)] @@ V ELSE V
      [] k = 6 -> IF V.bt = -1 THEN [sf |-> FP12_conj(V.sf)] @@ V ELSE V

\* for (i = hi; i >= 1; i--)
RECURSIVE FP12_pow_loop(_, _)
FP12_pow_loop(V_, i_) ==
    Val({ IF i < 1 THEN V ELSE FP12_pow_loop(Run("FP12_pow_iter", [i |-> i] @@ V, 1, 6), i - 1)
         : V \in {V_}, i \in {i_} })

FP12_pow_stmt(V, k) ==
    CASE k = 1 -> [e1 |-> V.e] @@ V
      [] k = 2 -> [e3 |-> V.e1 * 3] @@ V
      [] k = 3 -> [sf |-> FP12_new(V.x)] @@ V
      [] k = 4 -> [w |-> FP12_new(V.sf)] @@ V
      [] k = 5 -> [nb |-> BIG_nbits(V.e3)] @@ V
      [] k = 6 -> FP12_pow_loop(V, V.nb - 2)

FP12_pow(x, e) == Run("FP12_pow", [x |-> x, e |-> e], 1, 6).w

(***************************************************************************)
(* ECP: points of G1 in projective coordinates, records [x, y, z] of FP     *)
(***************************************************************************)
ECP_new == [x |-> 0, y |-> FP_nres(1), z |-> 0]

ECP_is_infinity(P_) == Val({FP_iszilch(P.x) /\ FP_iszilch(P.z) : P \in {P_}})

ECP_equals(P_, Q_) ==
    Val({(
    /\ FP_equals(FP_mul(P.x, Q.z), FP_mul(Q.x, P.z))
    /\ FP_equals(FP_mul(P.y, Q.z), FP_mul(Q.y, P.z))
    ) : P \in {P_}, Q \in {Q_}})

ECP_neg(P_) == Val({[x |-> P.x, y |-> FP_neg(P.y), z |-> P.z] : P \in {P_}})

ECP_RHS(x_) == Val({FP_add(FP_mul(FP_sqr(x), x), FP_nres(CURVE_B_I)) : x \in {x_}})

\* setxy without the test of the curve equation
ECP_setxy_any(ix, iy) == [x |-> FP_nres(ix), y |-> FP_nres(iy), z |-> FP_nres(1)]

ECP_setxy(ix_, iy_) ==
    Val({(
    LET x   == FP_nres(ix)
        y   == FP_nres(iy)
        rhs == ECP_RHS(x)
    IN  IF ~FP_equals(FP_sqr(y), rhs) THEN ECP_new
        ELSE [x |-> x, y |-> y, z |-> FP_nres(1)]
    ) : ix \in {ix_}, iy \in {iy_}})

\* setxi that keeps the root sqrt returns, whatever the sign asked for
ECP_setxi_root(ix, s) ==
    IF FP_jacobi(ECP_RHS(FP_nres(ix))) = 1
    THEN [x |-> FP_nres(ix), y |-> FP_sqrt(ECP_RHS(FP_nres(ix))), z |-> FP_nres(1)]
    ELSE ECP_new

ECP_setxi(ix_, s_) ==
    Val({(
    LET x   == FP_nres(ix)
        rhs == ECP_RHS(x)
        ny  == FP_sqrt(rhs)
    IN  IF FP_jacobi(rhs) = 1
        THEN [x |-> x,
              y |-> IF BIG_parity(FP_redc(ny)) # s THEN FP_neg(ny) ELSE ny,
              z |-> FP_nres(1)]
        ELSE ECP_new
    ) : ix \in {ix_}, s \in {s_}})

ECP_affine(P_) ==
    Val({(
    IF ECP_is_infinity(P) THEN P
    ELSE IF FP_equals(P.z, FP_nres(1)) THEN P
    ELSE LET zi == FP_inverse(P.z)
         IN  [x |-> FP_mul(P.x, zi), y |-> FP_mul(P.y, zi), z |-> FP_nres(1)]
    ) : P \in {P_}})

ECP_dbl_stmt(V, k) ==
    CASE k = 1 -> [t0 |-> FP_sqr(V.P.y)] @@ V
      [] k = 2 -> [t1 |-> FP_mul(V.P.y, V.P.z)] @@ V
      [] k = 3 -> [t2 |-> FP_sqr(V.P.z)] @@ V
      [] k = 4 -> [z1 |-> FP_add(V.t0, V.t0)] @@ V
      [] k = 5 -> [z2 |-> FP_add(V.z1, V.z1)] @@ V
      [] k = 6 -> [z3 |-> FP_add(V.z2, V.z2)] @@ V
      [] k = 7 -> [t2a |-> FP_imul(V.t2, 3 * CURVE_B_I)] @@ V
      [] k = 8 -> [x3 |-> FP_mul(V.t2a, V.z3)] @@ V
      [] k = 9 -> [y3 |-> FP_add(V.t0, V.t2a)] @@ V
      [] k = 10 -> [z4 |-> FP_mul(V.z3, V.t1)] @@ V
      [] k = 11 -> [t1a |-> FP_add(V.t2a, V.t2a)] @@ V
      [] k = 12 -> [t2b |-> FP_add(V.t2a, V.t1a)] @@ V
      [] k = 13 -> [t0a |-> FP_sub(V.t0, V.t2b)] @@ V
      [] k = 14 -> [y3a |-> FP_add(FP_mul(V.y3, V.t0a), V.x3)] @@ V
      [] k = 15 -> [t1b |-> FP_mul(V.P.x, V.P.y)] @@ V
      [] k = 16 -> [x1 |-> FP_mul(V.t0a, V.t1b)] @@ V
      [] k = 17 -> [out |-> [x |-> FP_add(V.x1, V.x1), y |-> V.y3a, z |-> V.z4]] @@ V

ECP_dbl(P) == Run("ECP_dbl", [P |-> P], 1, 17).out

ECP_add_stmt(V, k) ==
    CASE k = 1 -> [b |-> 3 * CURVE_B_I] @@ V
      [] k = 2 -> [t0 |-> FP_mul(V.P.x, V.Q.x)] @@ V
      [] k = 3 -> [t1 |-> FP_mul(V.P.y, V.Q.y)] @@ V
      [] k = 4 -> [t2 |-> FP_mul(V.P.z, V.Q.z)] @@ V
      [] k = 5 -> [t3 |-> FP_mul(FP_add(V.P.x, V.P.y), FP_add(V.Q.x, V.Q.y))] @@ V
      [] k = 6 -> [t4 |-> FP_add(V.t0, V.t1)] @@ V
      [] k = 7 -> [t3a |-> FP_sub(V.t3, V.t4)] @@ V
      [] k = 8 -> [t4a |-> FP_mul(FP_add(V.P.y, V.P.z), FP_add(V.Q.y, V.Q.z))] @@ V
      [] k = 9 -> [x3 |-> FP_add(V.t1, V.t2)] @@ V
      [] k = 10 -> [t4b |-> FP_sub(V.t4a, V.x3)] @@ V
      [] k = 11 -> [x3a |-> FP_mul(FP_add(V.P.x, V.P.z), FP_add(V.Q.x, V.Q.z))] @@ V
      [] k = 12 -> [y3 |-> FP_sub(V.x3a, FP_add(V.t0, V.t2))] @@ V
      [] k = 13 -> [x3b |-> FP_add(V.t0, V.t0)] @@ V
      [] k = 14 -> [t0a |-> FP_add(V.t0, V.x3b)] @@ V
      [] k = 15 -> [t2a |-> FP_imul(V.t2, V.b)] @@ V
      [] k = 16 -> [z3 |-> FP_add(V.t1, V.t2a)] @@ V
      [] k = 17 -> [t1a |-> FP_sub(V.t1, V.t2a)] @@ V
      [] k = 18 -> [y3a |-> FP_imul(V.y3, V.b)] @@ V
      [] k = 19 -> [x3c |-> FP_mul(V.y3a, V.t4b)] @@ V
      [] k = 20 -> [t2b |-> FP_mul(V.t3a, V.t1a)] @@ V
      [] k = 21 -> [x3d |-> FP_sub(V.t2b, V.x3c)] @@ V
      [] k = 22 -> [y3b |-> FP_mul(V.y3a, V.t0a)] @@ V
      [] k = 23 -> [t1b |-> FP_mul(V.t1a, V.z3)] @@ V
      [] k = 24 -> [y3c |-> FP_add(V.y3b, V.t1b)] @@ V
      [] k = 25 -> [t0b |-> FP_mul(V.t0a, V.t3a)] @@ V
      [] k = 26 -> [z3a |-> FP_mul(V.z3, V.t4b)] @@ V
      [] k = 27 -> [z3b |-> FP_add(V.z3a, V.t0b)] @@ V
      [] k = 28 -> [out |-> [x |-> V.x3d, y |-> V.y3c, z |-> V.z3b]] @@ V

ECP_add(P, Q) == Run("ECP_add", [P |-> P, Q |-> Q], 1, 28).out

ECP_sub(P, Q) == ECP_add(P, ECP_neg(Q))

ECP_generator == ECP_setxy(CURVE_Gx, CURVE_Gy)

\* W is the table of 8 points (1-based here), b an odd digit in -15 .. 15;
\* the point keeps its value when no table entry is selected
ECP_select(Q_, W_, b_) ==
    Val({(
    LET babs == ((IF b < 0 THEN -b ELSE b) - 1) \div 2
        R    == IF babs \in 0..7 THEN W[babs + 1] ELSE Q
    IN  IF b < 0 THEN ECP_neg(R) ELSE R
    ) : Q \in {Q_}, W \in {W_}, b \in {b_}})

\* the table W[0] = P, W[i] = W[i-1] + Q (Q = 2P), as a sequence of 8 points
RECURSIVE ECP_mul_W(_, _)
ECP_mul_W(W_, Q_) ==
    Val({(
    IF Len(W) = 8 THEN W ELSE ECP_mul_W(Append(W, ECP_add(W[Len(W)], Q)), Q)
    ) : W \in {W_}, Q \in {Q_}})

\* the scalar incremented once whatever its parity
ECP_mul_t_inc(e) == e + 1

\* the scalar after "make exponent odd": e+1 for an even e, e+2 for an odd e
ECP_mul_t(e) == IF BIG_parity(e) = 1 THEN e + 2 ELSE e + 1

ECP_mul_nb(e) == 1 + ((BIG_nbits(ECP_mul_t(e)) + 3) \div 4)

\* the scalar left after i digits have been extracted
RECURSIVE ECP_mul_rest(_, _)
ECP_mul_rest(t_, i_) ==
    Val({(
    IF i = 0 THEN t
    ELSE LET u == ECP_mul_rest(t, i - 1)
         IN  (u - (BIG_lastbits(u, 5) - 16)) \div 16
    ) : t \in {t_}, i \in {i_}})

\* w[i], the signed 4-bit window digits, and the top digit w[nb]
ECP_mul_w(t_, i_, nb_) ==
    Val({(
    IF i = nb THEN BIG_lastbits(ECP_mul_rest(t, nb), 5)
    ELSE BIG_lastbits(ECP_mul_rest(t, i), 5) - 16
    ) : t \in {t_}, i \in {i_}, nb \in {nb_}})

RECURSIVE ECP_mul_loop(_, _, _, _, _, _)
ECP_mul_loop(R_, Q_, W_, t_, nb_, i_) ==
    Val({(
    IF i < 0 THEN R
    ELSE LET Q1 == ECP_select(Q, W, ECP_mul_w(t, i, nb))
             R1 == ECP_add(ECP_dbl(ECP_dbl(ECP_dbl(ECP_dbl(R)))), Q1)
         IN  ECP_mul_loop(R1, Q1, W, t, nb, i - 1)
    ) : R \in {R_}, Q \in {Q_}, W \in {W_}, t \in {t_}, nb \in {nb_}, i \in {i_}})

ECP_mul_stmt(V, k) ==
    CASE k = 1 -> [Q0 |-> ECP_dbl(V.P)] @@ V
      [] k = 2 -> [W |-> ECP_mul_W(<<V.P>>, V.Q0)] @@ V
      [] k = 3 -> [t |-> ECP_mul_t(V.e)] @@ V
      [] k = 4 -> [ns |-> BIG_parity(V.e + 1)] @@ V
      [] k = 5 -> [Q |-> IF V.ns = 1 THEN V.P ELSE V.Q0] @@ V
      [] k = 6 -> [nb |-> ECP_mul_nb(V.e)] @@ V
      [] k = 7 -> [R |-> V.W[((ECP_mul_w(V.t, V.nb, V.nb) - 1) \div 2) + 1]] @@ V
      [] k = 8 -> [L |-> ECP_mul_loop(V.R, V.Q, V.W, V.t, V.nb, V.nb - 1)] @@ V
      [] k = 9 -> [out |-> ECP_affine(ECP_sub(V.L, V.Q))] @@ V

ECP_mul(P_, e_) ==
    Val({ IF e = 0 \/ ECP_is_infinity(P) THEN ECP_new ELSE Run("ECP_mul", [P |-> P, e |-> e], 1, 9).out
         : P \in {P_}, e \in {e_} })

\* the table of mul2: W[0] = P-3Q, W[1] = P-Q, W[2] = P+Q, W[3] = P+3Q,
\* W[4] = 3P-3Q, W[5] = 3P-Q, W[6] = 3P+Q, W[7] = 3P+3Q
ECP_mul2_W_stmt(V, k) ==
    CASE k = 1 -> [W1 |-> ECP_sub(V.P, V.Q)] @@ V
      [] k = 2 -> [W2 |-> ECP_add(V.P, V.Q)] @@ V
      [] k = 3 -> [S |-> ECP_dbl(V.Q)] @@ V
      [] k = 4 -> [W0 |-> ECP_sub(V.W1, V.S)] @@ V
      [] k = 5 -> [W3 |-> ECP_add(V.W2, V.S)] @@ V
      [] k = 6 -> [T |-> ECP_dbl(V.P)] @@ V
      [] k = 7 -> [W5 |-> ECP_add(V.W1, V.T)] @@ V
      [] k = 8 -> [W6 |-> ECP_add(V.W2, V.T)] @@ V
      [] k = 9 -> [W4 |-> ECP_sub(V.W5, V.S)] @@ V
      [] k = 10 -> [W7 |-> ECP_add(V.W6, V.S)] @@ V
      [] k = 11 -> [out |-> <<V.W0, V.W1, V.W2, V.W3, V.W4, V.W5, V.W6, V.W7>>] @@ V

ECP_mul2_W(P, Q) == Run("ECP_mul2_W", [P |-> P, Q |-> Q], 1, 11).out

\* a scalar of mul2 after i signed 2-bit digits have been extracted
RECURSIVE ECP_mul2_rest(_, _)
ECP_mul2_rest(t_, i_) ==
    Val({(
    IF i = 0 THEN t
    ELSE LET u == ECP_mul2_rest(t, i - 1)
         IN  (u - (BIG_lastbits(u, 3) - 4)) \div 4
    ) : t \in {t_}, i \in {i_}})

\* w[i] = 4a + b, and the top digit w[nb]
ECP_mul2_w(te_, tf_, i_, nb_) ==
    Val({(
    IF i = nb
    THEN 4 * BIG_lastbits(ECP_mul2_rest(te, nb), 3) + BIG_lastbits(ECP_mul2_rest(tf, nb), 3)
    ELSE 4 * (BIG_lastbits(ECP_mul2_rest(te, i), 3) - 4) + (BIG_lastbits(ECP_mul2_rest(tf, i), 3) - 4)
    ) : te \in {te_}, tf \in {tf_}, i \in {i_}, nb \in {nb_}})

RECURSIVE ECP_mul2_loop(_, _, _, _, _, _, _)
ECP_mul2_loop(S_, T_, W_, te_, tf_, nb_, i_) ==
    Val({(
    IF i < 0 THEN S
    ELSE LET T1 == ECP_select(T, W, ECP_mul2_w(te, tf, i, nb))
             S1 == ECP_add(ECP_dbl(ECP_dbl(S)), T1)
         IN  ECP_mul2_loop(S1, T1, W, te, tf, nb, i - 1)
    ) : S \in {S_}, T \in {T_}, W \in {W_}, te \in {te_}, tf \in {tf_}, nb \in {nb_}, i \in {i_}})

\* the correction P + Q whatever the parities
ECP_mul2_C_odd(P, e, Q, f) == ECP_add(P, Q)

\* the correction C = (P or 2P) + (Q or 2Q)
ECP_mul2_C(P_, e_, Q_, f_) ==
    Val({(
    ECP_add(IF BIG_parity(e + 1) = 1 THEN P ELSE ECP_dbl(P),
            IF BIG_parity(f + 1) = 1 THEN Q ELSE ECP_dbl(Q))
    ) : P \in {P_}, e \in {e_}, Q \in {Q_}, f \in {f_}})

ECP_mul2_stmt(V, k) ==
    CASE k = 1 -> [W |-> ECP_mul2_W(V.P, V.Q)] @@ V
      [] k = 2 -> [te |-> ECP_mul_t(V.e)] @@ V
      [] k = 3 -> [tf |-> ECP_mul_t(V.f)] @@ V
      [] k = 4 -> [T |-> IF BIG_parity(V.e + 1) = 1 THEN V.P ELSE ECP_dbl(V.P)] @@ V
      [] k = 5 -> [C |-> ECP_mul2_C(V.P, V.e, V.Q, V.f)] @@ V
      [] k = 6 -> [nb |-> 1 + ((BIG_nbits(V.te + V.tf) + 1) \div 2)] @@ V
      [] k = 7 -> [S |-> V.W[((ECP_mul2_w(V.te, V.tf, V.nb, V.nb) - 1) \div 2) + 1]] @@ V
      [] k = 8 -> [L |-> ECP_mul2_loop(V.S, V.T, V.W, V.te, V.tf, V.nb, V.nb - 1)] @@ V
      [] k = 9 -> [out |-> ECP_affine(ECP_sub(V.L, V.C))] @@ V

ECP_mul2(P, e, Q, f) == Run("ECP_mul2", [P |-> P, e |-> e, Q |-> Q, f |-> f], 1, 9).out

(***************************************************************************)
(* Byte arrays: sequences of bytes, b[1] is the first byte                  *)
(***************************************************************************)
\* the number of bytes of the array form of a BIG: more than the modulus of
\* this instance needs, so that an array can hold an integer above it
MODBYTES == 3

\* b[i] & 0xff of a JavaScript array: an absent entry reads as 0
ByteAt(b, i) == IF i \in 1..Len(b) THEN b[i] % 256 ELSE 0

BIG_tobytearray(x) == [i \in 1..MODBYTES |-> (x \div 256^(MODBYTES - i)) % 256]

RECURSIVE BIG_frombytearray_loop(_, _, _, _)
BIG_frombytearray_loop(m, b, n, i) ==
    IF i >= MODBYTES THEN m
    ELSE BIG_frombytearray_loop(m * 256 + ByteAt(b, i + n + 1), b, n, i + 1)

\* n is the 0-based offset of the first byte
BIG_frombytearray(b, n) == BIG_frombytearray_loop(0, b, n, 0)

ECP_toBytes(P_, compress_) ==
    Val({(
    LET W == ECP_affine(P)
        t == BIG_tobytearray(FP_redc(W.x))
    IN  IF compress
        THEN <<IF BIG_parity(FP_redc(W.y)) = 1 THEN 3 ELSE 2>> \o t
        ELSE <<4>> \o t \o BIG_tobytearray(FP_redc(W.y))
    ) : P \in {P_}, compress \in {compress_}})

\* b[0] of the source, not masked; -1 stands for the undefined of an empty
\* array, which is equal to none of the tags
ECP_fromBytes_tag(b) == IF Len(b) >= 1 THEN b[1] ELSE -1

ECP_fromBytes(b_) ==
    Val({(
    LET px  == BIG_frombytearray(b, 1)
        py  == BIG_frombytearray(b, MODBYTES + 1)
        tag == ECP_fromBytes_tag(b)
    IN  IF BIG_comp(px, Modulus) >= 0 THEN ECP_new
        ELSE IF tag = 4
             THEN IF BIG_comp(py, Modulus) >= 0 THEN ECP_new ELSE ECP_setxy(px, py)
        ELSE IF tag = 2 \/ tag = 3
             THEN ECP_setxi(px, tag % 2)
        ELSE ECP_new
    ) : b \in {b_}})

(***************************************************************************)
(* ECP2: points of G2 on the twist, records [x, y, z] of FP2                *)
(***************************************************************************)
ECP2_new == [x |-> FP2_zero, y |-> FP2_one, z |-> FP2_zero]

ECP2_is_infinity(P_) == Val({FP2_iszilch(P.x) /\ FP2_iszilch(P.z) : P \in {P_}})

ECP2_equals(P_, Q_) ==
    Val({(
    /\ FP2_equals(FP2_mul(P.x, Q.z), FP2_mul(Q.x, P.z))
    /\ FP2_equals(FP2_mul(P.y, Q.z), FP2_mul(Q.y, P.z))
    ) : P \in {P_}, Q \in {Q_}})

ECP2_neg(P_) == Val({[x |-> P.x, y |-> FP2_neg(P.y), z |-> P.z] : P \in {P_}})

ECP2_affine(P_) ==
    Val({(
    IF ECP2_is_infinity(P) THEN P
    ELSE IF FP2_equals(P.z, FP2_one) THEN P
    ELSE LET zi == FP2_inverse(P.z)
         IN  [x |-> FP2_mul(P.x, zi), y |-> FP2_mul(P.y, zi), z |-> FP2_one]
    ) : P \in {P_}})

ECP2_RHS(x_) ==
    Val({FP2_add(FP2_mul(FP2_sqr(x), x), FP2_div_ip(FP2_new(CURVE_B_I, 0))) : x \in {x_}})

ECP2_setxy(ix_, iy_) ==
    Val({(
    IF ~FP2_equals(FP2_sqr(iy), ECP2_RHS(ix)) THEN ECP2_new
    ELSE [x |-> ix, y |-> iy, z |-> FP2_one]
    ) : ix \in {ix_}, iy \in {iy_}})

ECP2_frob(P_, X_) ==
    Val({(
    LET X2 == FP2_sqr(X)
    IN  [x |-> FP2_mul(FP2_conj(P.x), X2),
         y |-> FP2_mul(FP2_mul(FP2_conj(P.y), X2), X),
         z |-> FP2_conj(P.z)]
    ) : P \in {P_}, X \in {X_}})

ECP2_dbl_stmt(V, k) ==
    CASE k = 1 -> [iy |-> FP2_mul_ip(V.P.y)] @@ V
      [] k = 2 -> [t0 |-> FP2_mul_ip(FP2_sqr(V.P.y))] @@ V
      [] k = 3 -> [t1 |-> FP2_mul(V.iy, V.P.z)] @@ V
      [] k = 4 -> [t2 |-> FP2_sqr(V.P.z)] @@ V
      [] k = 5 -> [z1 |-> FP2_add(V.t0, V.t0)] @@ V
      [] k = 6 -> [z2 |-> FP2_add(V.z1, V.z1)] @@ V
      [] k = 7 -> [z3 |-> FP2_add(V.z2, V.z2)] @@ V
      [] k = 8 -> [t2a |-> FP2_imul(V.t2, 3 * CURVE_B_I)] @@ V
      [] k = 9 -> [x3 |-> FP2_mul(V.t2a, V.z3)] @@ V
      [] k = 10 -> [y3 |-> FP2_add(V.t0, V.t2a)] @@ V
      [] k = 11 -> [z4 |-> FP2_mul(V.z3, V.t1)] @@ V
      [] k = 12 -> [t1a |-> FP2_add(V.t2a, V.t2a)] @@ V
      [] k = 13 -> [t2b |-> FP2_add(V.t2a, V.t1a)] @@ V
      [] k = 14 -> [t0a |-> FP2_sub(V.t0, V.t2b)] @@ V
      [] k = 15 -> [y3a |-> FP2_add(FP2_mul(V.y3, V.t0a), V.x3)] @@ V
      [] k = 16 -> [t1b |-> FP2_mul(V.P.x, V.iy)] @@ V
      [] k = 17 -> [x1 |-> FP2_mul(V.t0a, V.t1b)] @@ V
      [] k = 18 -> [out |-> [x |-> FP2_add(V.x1, V.x1), y |-> V.y3a, z |-> V.z4]] @@ V

ECP2_dbl(P) == Run("ECP2_dbl", [P |-> P], 1, 18).out

ECP2_add_stmt(V, k) ==
    CASE k = 1 -> [b |-> 3 * CURVE_B_I] @@ V
      [] k = 2 -> [t0 |-> FP2_mul(V.P.x, V.Q.x)] @@ V
      [] k = 3 -> [t1 |-> FP2_mul(V.P.y, V.Q.y)] @@ V
      [] k = 4 -> [t2 |-> FP2_mul(V.P.z, V.Q.z)] @@ V
      [] k = 5 -> [t3 |-> FP2_mul(FP2_add(V.P.x, V.P.y), FP2_add(V.Q.x, V.Q.y))] @@ V
      [] k = 6 -> [t4 |-> FP2_add(V.t0, V.t1)] @@ V
      [] k = 7 -> [t3a |-> FP2_mul_ip(FP2_sub(V.t3, V.t4))] @@ V
      [] k = 8 -> [t4a |-> FP2_mul(FP2_add(V.P.y, V.P.z), FP2_add(V.Q.y, V.Q.z))] @@ V
      [] k = 9 -> [x3 |-> FP2_add(V.t1, V.t2)] @@ V
      [] k = 10 -> [t4b |-> FP2_mul_ip(FP2_sub(V.t4a, V.x3))] @@ V
      [] k = 11 -> [x3a |-> FP2_mul(FP2_add(V.P.x, V.P.z), FP2_add(V.Q.x, V.Q.z))] @@ V
      [] k = 12 -> [y3 |-> FP2_add(FP2_neg(FP2_add(V.t0, V.t2)), V.x3a)] @@ V
      [] k = 13 -> [t0m |-> FP2_mul_ip(V.t0)] @@ V
      [] k = 14 -> [t1m |-> FP2_mul_ip(V.t1)] @@ V
      [] k = 15 -> [x3b |-> FP2_add(V.t0m, V.t0m)] @@ V
      [] k = 16 -> [t0a |-> FP2_add(V.t0m, V.x3b)] @@ V
      [] k = 17 -> [t2a |-> FP2_imul(V.t2, V.b)] @@ V
      [] k = 18 -> [z3 |-> FP2_add(V.t1m, V.t2a)] @@ V
      [] k = 19 -> [t1a |-> FP2_sub(V.t1m, V.t2a)] @@ V
      [] k = 20 -> [y3a |-> FP2_imul(V.y3, V.b)] @@ V
      [] k = 21 -> [x3c |-> FP2_mul(V.y3a, V.t4b)] @@ V
      [] k = 22 -> [t2b |-> FP2_mul(V.t3a, V.t1a)] @@ V
      [] k = 23 -> [x3d |-> FP2_add(FP2_neg(V.x3c), V.t2b)] @@ V
      [] k = 24 -> [y3b |-> FP2_mul(V.y3a, V.t0a)] @@ V
      [] k = 25 -> [t1b |-> FP2_mul(V.t1a, V.z3)] @@ V
      [] k = 26 -> [y3c |-> FP2_add(V.y3b, V.t1b)] @@ V
      [] k = 27 -> [t0b |-> FP2_mul(V.t0a, V.t3a)] @@ V
      [] k = 28 -> [z3a |-> FP2_mul(V.z3, V.t4b)] @@ V
      [] k = 29 -> [z3b |-> FP2_add(V.z3a, V.t0b)] @@ V
      [] k = 30 -> [out |-> [x |-> V.x3d, y |-> V.y3c, z |-> V.z3b]] @@ V

ECP2_add(P, Q) == Run("ECP2_add", [P |-> P, Q |-> Q], 1, 30).out

ECP2_sub(P, Q) == ECP2_add(P, ECP2_neg(Q))

ECP2_select(Q_, W_, b_) ==
    Val({(
    LET babs == ((IF b < 0 THEN -b ELSE b) - 1) \div 2
        R    == IF babs \in 0..7 THEN W[babs + 1] ELSE Q
    IN  IF b < 0 THEN ECP2_neg(R) ELSE R
    ) : Q \in {Q_}, W \in {W_}, b \in {b_}})

RECURSIVE ECP2_mul_W(_, _)
ECP2_mul_W(W_, Q_) ==
    Val({(
    IF Len(W) = 8 THEN W ELSE ECP2_mul_W(Append(W, ECP2_add(W[Len(W)], Q)), Q)
    ) : W \in {W_}, Q \in {Q_}})

RECURSIVE ECP2_mul_loop(_, _, _, _, _, _)
ECP2_mul_loop(R_, Q_, W_, t_, nb_, i_) ==
    Val({(
    IF i < 0 THEN R
    ELSE LET Q1 == ECP2_select(Q, W, ECP_mul_w(t, i, nb))
             R1 == ECP2_add(ECP2_dbl(ECP2_dbl(ECP2_dbl(ECP2_dbl(R)))), Q1)
         IN  ECP2_mul_loop(R1, Q1, W, t, nb, i - 1)
    ) : R \in {R_}, Q \in {Q_}, W \in {W_}, t \in {t_}, nb \in {nb_}, i \in {i_}})

ECP2_mul_stmt(V, k) ==
    CASE k = 1 -> [Q0 |-> ECP2_dbl(V.P)] @@ V
      [] k = 2 -> [W |-> ECP2_mul_W(<<V.P>>, V.Q0)] @@ V
      [] k = 3 -> [t |-> ECP_mul_t(V.e)] @@ V
      [] k = 4 -> [ns |-> BIG_parity(V.e + 1)] @@ V
      [] k = 5 -> [Q |-> IF V.ns = 1 THEN V.P ELSE V.Q0] @@ V
      [] k = 6 -> [nb |-> ECP_mul_nb(V.e)] @@ V
      [] k = 7 -> [R |-> V.W[((ECP_mul_w(V.t, V.nb, V.nb) - 1) \div 2) + 1]] @@ V
      [] k = 8 -> [L |-> ECP2_mul_loop(V.R, V.Q, V.W, V.t, V.nb, V.nb - 1)] @@ V
      [] k = 9 -> [out |-> ECP2_affine(ECP2_sub(V.L, V.Q))] @@ V

ECP2_mul(P_, e_) ==
    Val({ IF ECP2_is_infinity(P) THEN ECP2_new ELSE Run("ECP2_mul", [P |-> P, e |-> e], 1, 9).out
         : P \in {P_}, e \in {e_} })

ECP2_generator ==
    ECP2_setxy(FP2_new(CURVE_Pxa, CURVE_Pxb), FP2_new(CURVE_Pya, CURVE_Pyb))

ECP2_toBytes(P_) ==
    Val({(
    LET W == ECP2_affine(P)
    IN  BIG_tobytearray(FP_redc(W.x[1])) \o BIG_tobytearray(FP_redc(W.x[2]))
        \o BIG_tobytearray(FP_redc(W.y[1])) \o BIG_tobytearray(FP_redc(W.y[2]))
    ) : P \in {P_}})

ECP2_fromBytes(b_) ==
    Val({(
    LET rax == BIG_frombytearray(b, 0)
        rbx == BIG_frombytearray(b, MODBYTES)
        ray == BIG_frombytearray(b, 2 * MODBYTES)
        rby == BIG_frombytearray(b, 3 * MODBYTES)
    IN  ECP2_setxy(FP2_new(rax, rbx), FP2_new(ray, rby))
    ) : b \in {b_}})

RECURSIVE BIG_or(_, _)
BIG_or(a, b) ==
    IF a = 0 THEN b
    ELSE IF b = 0 THEN a
    ELSE (IF a % 2 = 1 \/ b % 2 = 1 THEN 1 ELSE 0) + 2 * BIG_or(a \div 2, b \div 2)

\* the table T[0] = Q0, T[1] = Q0+Q1, ... , T[7] = Q0+Q1+Q2+Q3
ECP2_mul4_T_stmt(V, k) ==
    CASE k = 1 -> [T0 |-> V.Q[1]] @@ V
      [] k = 2 -> [T1 |-> ECP2_add(V.T0, V.Q[2])] @@ V
      [] k = 3 -> [T2 |-> ECP2_add(V.T0, V.Q[3])] @@ V
      [] k = 4 -> [T3 |-> ECP2_add(V.T1, V.Q[3])] @@ V
      [] k = 5 -> [T4 |-> ECP2_add(V.T0, V.Q[4])] @@ V
      [] k = 6 -> [T5 |-> ECP2_add(V.T1, V.Q[4])] @@ V
      [] k = 7 -> [T6 |-> ECP2_add(V.T2, V.Q[4])] @@ V
      [] k = 8 -> [T7 |-> ECP2_add(V.T3, V.Q[4])] @@ V
      [] k = 9 -> [out |-> <<V.T0, V.T1, V.T2, V.T3, V.T4, V.T5, V.T6, V.T7>>] @@ V

ECP2_mul4_T(Q) == Run("ECP2_mul4_T", [Q |-> Q], 1, 9).out

\* a sign pivot that is always +1
ECP2_mul4_s_plus(t0, i, nb) == 1

\* the sign pivot s[i] taken from the (odd) first scalar t0
ECP2_mul4_s(t0, i, nb) == IF i = nb - 1 THEN 1 ELSE 2 * BIG_bit(t0, i + 1) - 1

\* the recoded digits w[0 .. nb-1] (w[i] is element i+1 of the result);
\* t = <<t[1], t[2], t[3]>> are the scalars that remain
RECURSIVE ECP2_mul4_w(_, _, _, _, _)
ECP2_mul4_w(w_, t_, t0_, nb_, i_) ==
    Val({(
    IF i >= nb THEN w
    ELSE LET si == ECP2_mul4_s(t0, i, nb)
             bt == [j \in 1..3 |-> si * BIG_parity(t[j])]
             tn == [j \in 1..3 |-> (t[j] \div 2) + (IF bt[j] = -1 THEN 1 ELSE 0)]
             w1 == Append(w, bt[1] + 2 * bt[2] + 4 * bt[3])
         IN  ECP2_mul4_w(w1, tn, t0, nb, i + 1)
    ) : w \in {w_}, t \in {t_}, t0 \in {t0_}, nb \in {nb_}, i \in {i_}})

RECURSIVE ECP2_mul4_loop(_, _, _, _, _, _, _)
ECP2_mul4_loop(P_, W_, T_, w_, t0_, nb_, i_) ==
    Val({(
    IF i < 0 THEN P
    ELSE LET W1 == ECP2_select(W, T, 2 * w[i + 1] + ECP2_mul4_s(t0, i, nb))
             P1 == ECP2_add(ECP2_dbl(P), W1)
         IN  ECP2_mul4_loop(P1, W1, T, w, t0, nb, i - 1)
    ) : P \in {P_}, W \in {W_}, T \in {T_}, w \in {w_}, t0 \in {t0_}, nb \in {nb_}, i \in {i_}})

\* Q is a sequence of 4 points, u a sequence of 4 scalars
ECP2_mul4_stmt(V, k) ==
    CASE k = 1 -> [T |-> ECP2_mul4_T(V.Q)] @@ V
      [] k = 2 -> [pb |-> 1 - BIG_parity(V.u[1])] @@ V
      [] k = 3 -> [t0 |-> V.u[1] + V.pb] @@ V
      [] k = 4 -> [mt |-> BIG_or(BIG_or(BIG_or(V.t0, V.u[2]), V.u[3]), V.u[4])] @@ V
      [] k = 5 -> [nb |-> 1 + BIG_nbits(V.mt)] @@ V
      [] k = 6 -> [w |-> ECP2_mul4_w(<<>>, <<V.u[2], V.u[3], V.u[4]>>, V.t0, V.nb, 0)] @@ V
      [] k = 7 -> [P0 |-> ECP2_select(ECP2_new, V.T, 2 * V.w[V.nb] + 1)] @@ V
      [] k = 8 -> [P1 |-> ECP2_mul4_loop(V.P0, ECP2_new, V.T, V.w, V.t0, V.nb, V.nb - 2)] @@ V
      [] k = 9 -> [out |-> ECP2_affine(IF V.pb = 1 THEN ECP2_sub(V.P1, V.Q[1]) ELSE V.P1)] @@ V

ECP2_mul4(Q, u) == Run("ECP2_mul4", [Q |-> Q, u |-> u], 1, 9).out

(***************************************************************************)
(* PAIR: the optimal Ate pairing                                            *)
(***************************************************************************)
ATE_BITS == 66

\* the Frobenius constant f = new FP2(Fra, Frb)
PAIR_f == FP2_new(Fra, Frb)

\* the line through A and A evaluated at (Qx, Qy), and the doubled point
PAIR_line_dbl_stmt(V, k) ==
    CASE k = 1 -> [YZ |-> FP2_pmul(FP2_neg(FP2_imul(FP2_mul(V.A.y, V.A.z), 4)), V.Qy)] @@ V
      [] k = 2 -> [XX |-> FP2_pmul(FP2_imul(FP2_sqr(V.A.x), 6), V.Qx)] @@ V
      [] k = 3 -> [ZZ |-> FP2_div_ip2(FP2_imul(FP2_sqr(V.A.z), 3 * CURVE_B_I))] @@ V
      [] k = 4 -> [YY |-> FP2_sqr(V.A.y)] @@ V
      [] k = 5 -> [Z1 |-> FP2_sub(V.ZZ, FP2_add(V.YY, V.YY))] @@ V
      [] k = 6 -> [out |-> [lv |-> [a |-> <<V.YZ, V.Z1>>, b |-> <<V.XX, FP2_zero>>, c |-> FP4_zero, stype |-> FP_SPARSER],
                               A  |-> ECP2_dbl(V.A)]] @@ V

PAIR_line_dbl(A, Qx, Qy) == Run("PAIR_line_dbl", [A |-> A, Qx |-> Qx, Qy |-> Qy], 1, 6).out

\* the line through A and B evaluated at (Qx, Qy), and the sum A + B
PAIR_line_add_stmt(V, k) ==
    CASE k = 1 -> [T1 |-> FP2_mul(V.A.z, V.B.y)] @@ V
      [] k = 2 -> [T2 |-> FP2_mul(V.A.z, V.B.x)] @@ V
      [] k = 3 -> [X1 |-> FP2_sub(V.A.x, V.T2)] @@ V
      [] k = 4 -> [Y1 |-> FP2_sub(V.A.y, V.T1)] @@ V
      [] k = 5 -> [T3 |-> FP2_mul(V.X1, V.B.y)] @@ V
      [] k = 6 -> [T4 |-> FP2_sub(FP2_mul(V.Y1, V.B.x), V.T3)] @@ V
      [] k = 7 -> [out |-> [lv |-> [a |-> <<FP2_pmul(V.X1, V.Qy), V.T4>>,
                                       b |-> <<FP2_neg(FP2_pmul(V.Y1, V.Qx)), FP2_zero>>,
                                       c |-> FP4_zero, stype |-> FP_SPARSER],
                               A  |-> ECP2_add(V.A, V.B)]] @@ V

PAIR_line_add(A, B, Qx, Qy) == Run("PAIR_line_add", [A |-> A, B |-> B, Qx |-> Qx, Qy |-> Qy], 1, 7).out

\* n = 6x - 2 as PAIR.lbits computes it (pmul(6), dec(2)), and n3 = 3n
PAIR_lbits_n == 6 * bnx - 2

PAIR_lbits_n3 == 3 * PAIR_lbits_n

PAIR_lbits == BIG_nbits(PAIR_lbits_n3)

PAIR_bt(i) == BIG_bit(PAIR_lbits_n3, i) - BIG_bit(PAIR_lbits_n, i)

\* the body of the loop of PAIR.ate (pair.js 263-275) at position V.i
PAIR_ate_iter_stmt(V, k) ==
    CASE k = 1 -> [r |-> FP12_sqr(V.r)] @@ V
      [] k = 2 -> Val({[lv |-> l.lv, A |-> l.A] @@ V : l \in {PAIR_line_dbl(V.A, V.Qx, V.Qy)}})
      [] k = 3 -> [bt |-> PAIR_bt(V.i)] @@ V
      [] k = 4 -> IF V.bt = 1 THEN Val({[lv2 |-> l.lv, A |-> l.A] @@ V : l \in {PAIR_line_add(V.A, V.P, V.Qx, V.Qy)}}) ELSE V
      [] k = 5 -> IF V.bt = 1 THEN [lv |-> FP12_smul(V.lv, V.lv2)] @@ V ELSE V
      [] k = 6 -> IF V.bt = -1 THEN Val({[lv2 |-> l.lv, A |-> l.A] @@ V : l \in {PAIR_line_add(V.A, V.NP, V.Qx, V.Qy)}}) ELSE V
      [] k = 7 -> IF V.bt = -1 THEN [lv |-> FP12_smul(V.lv, V.lv2)] @@ V ELSE V
      [] k = 8 -> [r |-> FP12_ssmul(V.r, V.lv)] @@ V

RECURSIVE PAIR_ate_loop(_, _)
PAIR_ate_loop(V_, i_) ==
    Val({ IF i < 1 THEN V ELSE PAIR_ate_loop(Run("PAIR_ate_iter", [i |-> i] @@ V, 1, 8), i - 1)
         : V \in {V_}, i \in {i_} })

PAIR_ate_stmt(V, k) ==
    CASE k = 1 -> [f |-> PAIR_f] @@ V
      [] k = 2 -> [P |-> ECP2_affine(V.P1)] @@ V
      [] k = 3 -> [Q |-> ECP_affine(V.Q1)] @@ V
      [] k = 4 -> [Qx |-> V.Q.x] @@ V
      [] k = 5 -> [Qy |-> V.Q.y] @@ V
      [] k = 6 -> [A |-> V.P] @@ V
      [] k = 7 -> [r |-> FP12_one] @@ V
      [] k = 8 -> [NP |-> ECP2_neg(V.P)] @@ V
      [] k = 9 -> [nb |-> PAIR_lbits] @@ V
      [] k = 10 -> PAIR_ate_loop(V, V.nb - 2)
      [] k = 11 -> [r |-> FP12_conj(V.r)] @@ V
      [] k = 12 -> [A |-> ECP2_neg(V.A)] @@ V
      [] k = 13 -> [K |-> ECP2_frob(V.P, V.f)] @@ V
      [] k = 14 -> Val({[lv |-> l.lv, A |-> l.A] @@ V : l \in {PAIR_line_add(V.A, V.K, V.Qx, V.Qy)}})
      [] k = 15 -> [K |-> ECP2_frob(V.K, V.f)] @@ V
      [] k = 16 -> [K |-> ECP2_neg(V.K)] @@ V
      [] k = 17 -> Val({[lv2 |-> l.lv, A |-> l.A] @@ V : l \in {PAIR_line_add(V.A, V.K, V.Qx, V.Qy)}})
      [] k = 18 -> [lv |-> FP12_smul(V.lv, V.lv2)] @@ V
      [] k = 19 -> [r |-> FP12_ssmul(V.r, V.lv)] @@ V

PAIR_ate(P1, Q1) == Run("PAIR_ate", [P1 |-> P1, Q1 |-> Q1], 1, 19).r

PAIR_initmp == [i \in 1..ATE_BITS |-> FP12_one]

\* the body of the loop of PAIR.another (pair.js 197-208) at position V.i;
\* r[i] of the sources is element i + 1 of the sequence r
PAIR_another_iter_stmt(V, k) ==
    CASE k = 1 -> Val({[lv |-> l.lv, A |-> l.A] @@ V : l \in {PAIR_line_dbl(V.A, V.Qx, V.Qy)}})
      [] k = 2 -> [bt |-> PAIR_bt(V.i)] @@ V
      [] k = 3 -> IF V.bt = 1 THEN Val({[lv2 |-> l.lv, A |-> l.A] @@ V : l \in {PAIR_line_add(V.A, V.P, V.Qx, V.Qy)}}) ELSE V
      [] k = 4 -> IF V.bt = 1 THEN [lv |-> FP12_smul(V.lv, V.lv2)] @@ V ELSE V
      [] k = 5 -> IF V.bt = -1 THEN Val({[lv2 |-> l.lv, A |-> l.A] @@ V : l \in {PAIR_line_add(V.A, V.MP, V.Qx, V.Qy)}}) ELSE V
      [] k = 6 -> IF V.bt = -1 THEN [lv |-> FP12_smul(V.lv, V.lv2)] @@ V ELSE V
      [] k = 7 -> [r |-> [V.r EXCEPT ![V.i + 1] = FP12_ssmul(@, V.lv)]] @@ V

RECURSIVE PAIR_another_loop(_, _)
PAIR_another_loop(V_, i_) ==
    Val({ IF i < 1 THEN V ELSE PAIR_another_loop(Run("PAIR_another_iter", [i |-> i] @@ V, 1, 7), i - 1)
         : V \in {V_}, i \in {i_} })

PAIR_another_stmt(V, k) ==
    CASE k = 1 -> [P |-> ECP2_affine(V.P1)] @@ V
      [] k = 2 -> [Q |-> ECP_affine(V.Q1)] @@ V
      [] k = 3 -> [f |-> PAIR_f] @@ V
      [] k = 4 -> [Qx |-> V.Q.x] @@ V
      [] k = 5 -> [Qy |-> V.Q.y] @@ V
      [] k = 6 -> [A |-> V.P] @@ V
      [] k = 7 -> [MP |-> ECP2_neg(V.P)] @@ V
      [] k = 8 -> [nb |-> PAIR_lbits] @@ V
      [] k = 9 -> PAIR_another_loop(V, V.nb - 2)
      [] k = 10 -> [A |-> ECP2_neg(V.A)] @@ V
      [] k = 11 -> [K |-> ECP2_frob(V.P, V.f)] @@ V
      [] k = 12 -> Val({[lv |-> l.lv, A |-> l.A] @@ V : l \in {PAIR_line_add(V.A, V.K, V.Qx, V.Qy)}})
      [] k = 13 -> [K |-> ECP2_frob(V.K, V.f)] @@ V
      [] k = 14 -> [K |-> ECP2_neg(V.K)] @@ V
      [] k = 15 -> Val({[lv2 |-> l.lv, A |-> l.A] @@ V : l \in {PAIR_line_add(V.A, V.K, V.Qx, V.Qy)}})
      [] k = 16 -> [lv |-> FP12_smul(V.lv, V.lv2)] @@ V
      [] k = 17 -> [r |-> [V.r EXCEPT ![1] = FP12_ssmul(@, V.lv)]] @@ V

\* the array r after another(r, P1, Q1)
PAIR_another(r, P1, Q1) == Run("PAIR_another", [r |-> r, P1 |-> P1, Q1 |-> Q1], 1, 17).r

\* the passes i = hi down to lo of the loop of PAIR.miller: res.sqr(); res.ssmul(r[i])
RECURSIVE PAIR_miller_loop(_, _, _, _)
PAIR_miller_loop(res_, r_, hi_, lo_) ==
    Val({(
    IF hi < lo THEN res
    ELSE IF hi = lo THEN FP12_ssmul(FP12_sqr(res), r[hi + 1])
    ELSE PAIR_miller_loop(PAIR_miller_loop(res, r, hi, ((hi + lo) \div 2) + 1), r, (hi + lo) \div 2, lo)
    ) : res \in {res_}, r \in {r_}, hi \in {hi_}, lo \in {lo_}})

\* PAIR.miller without res.conj() (pair.js 149)
PAIR_miller_noconj(r_) ==
    Val({FP12_ssmul(PAIR_miller_loop(FP12_one, r, ATE_BITS - 1, 1), r[1]) : r \in {r_}})

PAIR_miller(r_) ==
    Val({FP12_ssmul(FP12_conj(PAIR_miller_loop(FP12_one, r, ATE_BITS - 1, 1)), r[1]) : r \in {r_}})

\* the body of the loop of PAIR.ate2 (pair.js 350-369) at position V.i
PAIR_ate2_iter_stmt(V, k) ==
    CASE k = 1 -> [r |-> FP12_sqr(V.r)] @@ V
      [] k = 2 -> Val({[lv |-> l.lv, A |-> l.A] @@ V : l \in {PAIR_line_dbl(V.A, V.Qx, V.Qy)}})
      [] k = 3 -> Val({[lv2 |-> l.lv, B |-> l.A] @@ V : l \in {PAIR_line_dbl(V.B, V.Sx, V.Sy)}})
      [] k = 4 -> [lv |-> FP12_smul(V.lv, V.lv2)] @@ V
      [] k = 5 -> [r |-> FP12_ssmul(V.r, V.lv)] @@ V
      [] k = 6 -> [bt |-> PAIR_bt(V.i)] @@ V
      [] k = 7 -> IF V.bt = 1 THEN Val({[lv |-> l.lv, A |-> l.A] @@ V : l \in {PAIR_line_add(V.A, V.P, V.Qx, V.Qy)}}) ELSE V
      [] k = 8 -> IF V.bt = 1 THEN Val({[lv2 |-> l.lv, B |-> l.A] @@ V : l \in {PAIR_line_add(V.B, V.R, V.Sx, V.Sy)}}) ELSE V
      [] k = 9 -> IF V.bt = 1 THEN [lv |-> FP12_smul(V.lv, V.lv2)] @@ V ELSE V
      [] k = 10 -> IF V.bt = 1 THEN [r |-> FP12_ssmul(V.r, V.lv)] @@ V ELSE V
      [] k = 11 -> IF V.bt = -1 THEN Val({[lv |-> l.lv, A |-> l.A] @@ V : l \in {PAIR_line_add(V.A, V.NP, V.Qx, V.Qy)}}) ELSE V
      [] k = 12 -> IF V.bt = -1 THEN Val({[lv2 |-> l.lv, B |-> l.A] @@ V : l \in {PAIR_line_add(V.B, V.NR, V.Sx, V.Sy)}}) ELSE V
      [] k = 13 -> IF V.bt = -1 THEN [lv |-> FP12_smul(V.lv, V.lv2)] @@ V ELSE V
      [] k = 14 -> IF V.bt = -1 THEN [r |-> FP12_ssmul(V.r, V.lv)] @@ V ELSE V

RECURSIVE PAIR_ate2_loop(_, _)
PAIR_ate2_loop(V_, i_) ==
    Val({ IF i < 1 THEN V ELSE PAIR_ate2_loop(Run("PAIR_ate2_iter", [i |-> i] @@ V, 1, 14), i - 1)
         : V \in {V_}, i \in {i_} })

PAIR_ate2_stmt(V, k) ==
    CASE k = 1 -> [f |-> PAIR_f] @@ V
      [] k = 2 -> [P |-> ECP2_affine(V.P1)] @@ V
      [] k = 3 -> [Q |-> ECP_affine(V.Q1)] @@ V
      [] k = 4 -> [R |-> ECP2_affine(V.R1)] @@ V
      [] k = 5 -> [S |-> ECP_affine(V.S1)] @@ V
      [] k = 6 -> [Qx |-> V.Q.x] @@ V
      [] k = 7 -> [Qy |-> V.Q.y] @@ V
      [] k = 8 -> [Sx |-> V.S.x] @@ V
      [] k = 9 -> [Sy |-> V.S.y] @@ V
      [] k = 10 -> [r |-> FP12_one] @@ V
      [] k = 11 -> [A |-> V.P] @@ V
      [] k = 12 -> [B |-> V.R] @@ V
      [] k = 13 -> [NP |-> ECP2_neg(V.P)] @@ V
      [] k = 14 -> [NR |-> ECP2_neg(V.R)] @@ V
      [] k = 15 -> [nb |-> PAIR_lbits] @@ V
      [] k = 16 -> PAIR_ate2_loop(V, V.nb - 2)
      [] k = 17 -> [r |-> FP12_conj(V.r)] @@ V
      [] k = 18 -> [A |-> ECP2_neg(V.A)] @@ V
      [] k = 19 -> [B |-> ECP2_neg(V.B)] @@ V
      [] k = 20 -> [K |-> ECP2_frob(V.P, V.f)] @@ V
      [] k = 21 -> Val({[lv |-> l.lv, A |-> l.A] @@ V : l \in {PAIR_line_add(V.A, V.K, V.Qx, V.Qy)}})
      [] k = 22 -> [K |-> ECP2_frob(V.K, V.f)] @@ V
      [] k = 23 -> [K |-> ECP2_neg(V.K)] @@ V
      [] k = 24 -> Val({[lv2 |-> l.lv, A |-> l.A] @@ V : l \in {PAIR_line_add(V.A, V.K, V.Qx, V.Qy)}})
      [] k = 25 -> [lv |-> FP12_smul(V.lv, V.lv2)] @@ V
      [] k = 26 -> [r |-> FP12_ssmul(V.r, V.lv)] @@ V
      [] k = 27 -> [K |-> ECP2_frob(V.R, V.f)] @@ V
      [] k = 28 -> Val({[lv |-> l.lv, B |-> l.A] @@ V : l \in {PAIR_line_add(V.B, V.K, V.Sx, V.Sy)}})
      [] k = 29 -> [K |-> ECP2_frob(V.K, V.f)] @@ V
      [] k = 30 -> [K |-> ECP2_neg(V.K)] @@ V
      [] k = 31 -> Val({[lv2 |-> l.lv, B |-> l.A] @@ V : l \in {PAIR_line_add(V.B, V.K, V.Sx, V.Sy)}})
      [] k = 32 -> [lv |-> FP12_smul(V.lv, V.lv2)] @@ V
      [] k = 33 -> [r |-> FP12_ssmul(V.r, V.lv)] @@ V

\* PAIR.ate2 without the R-ate fixup of the second pair (pair.js 387-395)
PAIR_ate2_onefixup(P1, Q1, R1, S1) == Run("PAIR_ate2", [P1 |-> P1, Q1 |-> Q1, R1 |-> R1, S1 |-> S1], 1, 26).r

PAIR_ate2(P1, Q1, R1, S1) == Run("PAIR_ate2", [P1 |-> P1, Q1 |-> Q1, R1 |-> R1, S1 |-> S1], 1, 33).r

\* The statements of PAIR.fexp in the order of the source.  V holds the local
\* variables r, lv, x0 .. x5 that exist before statement k; the statement
\* assigns one of them.  f is the Frobenius constant and x the ROM word bnx.
PAIR_fexp_stmt(V, k) ==
    LET f == PAIR_f
        x == bnx
    IN  CASE k = 1  -> [lv |-> FP12_new(V.r)] @@ V                    \* easy part
          [] k = 2  -> [V EXCEPT !.lv = FP12_inverse(V.lv)]
          [] k = 3  -> [V EXCEPT !.r  = FP12_conj(V.r)]
          [] k = 4  -> [V EXCEPT !.r  = FP12_mul(V.r, V.lv)]
          [] k = 5  -> [V EXCEPT !.lv = V.r]
          [] k = 6  -> [V EXCEPT !.r  = FP12_frob(V.r, f)]
          [] k = 7  -> [V EXCEPT !.r  = FP12_frob(V.r, f)]
          [] k = 8  -> [V EXCEPT !.r  = FP12_mul(V.r, V.lv)]
          [] k = 9  -> [V EXCEPT !.lv = V.r]                          \* hard part
          [] k = 10 -> [V EXCEPT !.lv = FP12_frob(V.lv, f)]
          [] k = 11 -> [x0 |-> FP12_new(V.lv)] @@ V
          [] k = 12 -> [V EXCEPT !.x0 = FP12_frob(V.x0, f)]
          [] k = 13 -> [V EXCEPT !.lv = FP12_mul(V.lv, V.r)]
          [] k = 14 -> [V EXCEPT !.x0 = FP12_mul(V.x0, V.lv)]
          [] k = 15 -> [V EXCEPT !.x0 = FP12_frob(V.x0, f)]
          [] k = 16 -> [x1 |-> FP12_new(V.r)] @@ V
          [] k = 17 -> [V EXCEPT !.x1 = FP12_conj(V.x1)]
          [] k = 18 -> [x4 |-> FP12_pow(V.r, x)] @@ V
          [] k = 19 -> [x3 |-> FP12_new(V.x4)] @@ V
          [] k = 20 -> [V EXCEPT !.x3 = FP12_frob(V.x3, f)]
          [] k = 21 -> [x2 |-> FP12_pow(V.x4, x)] @@ V
          [] k = 22 -> [x5 |-> FP12_new(V.x2)] @@ V
          [] k = 23 -> [V EXCEPT !.x5 = FP12_conj(V.x5)]
          [] k = 24 -> [V EXCEPT !.lv = FP12_pow(V.x2, x)]
          [] k = 25 -> [V EXCEPT !.x2 = FP12_frob(V.x2, f)]
          [] k = 26 -> [V EXCEPT !.r  = V.x2]
          [] k = 27 -> [V EXCEPT !.r  = FP12_conj(V.r)]
          [] k = 28 -> [V EXCEPT !.x4 = FP12_mul(V.x4, V.r)]
          [] k = 29 -> [V EXCEPT !.x2 = FP12_frob(V.x2, f)]
          [] k = 30 -> [V EXCEPT !.r  = V.lv]
          [] k = 31 -> [V EXCEPT !.r  = FP12_frob(V.r, f)]
          [] k = 32 -> [V EXCEPT !.lv = FP12_mul(V.lv, V.r)]
          [] k = 33 -> [V EXCEPT !.lv = FP12_usqr(V.lv)]
          [] k = 34 -> [V EXCEPT !.lv = FP12_mul(V.lv, V.x4)]
          [] k = 35 -> [V EXCEPT !.lv = FP12_mul(V.lv, V.x5)]
          [] k = 36 -> [V EXCEPT !.r  = V.x3]
          [] k = 37 -> [V EXCEPT !.r  = FP12_mul(V.r, V.x5)]
          [] k = 38 -> [V EXCEPT !.r  = FP12_mul(V.r, V.lv)]
          [] k = 39 -> [V EXCEPT !.lv = FP12_mul(V.lv, V.x2)]
          [] k = 40 -> [V EXCEPT !.r  = FP12_usqr(V.r)]
          [] k = 41 -> [V EXCEPT !.r  = FP12_mul(V.r, V.lv)]
          [] k = 42 -> [V EXCEPT !.r  = FP12_usqr(V.r)]
          [] k = 43 -> [V EXCEPT !.lv = V.r]
          [] k = 44 -> [V EXCEPT !.lv = FP12_mul(V.lv, V.x1)]
          [] k = 45 -> [V EXCEPT !.r  = FP12_mul(V.r, V.x0)]
          [] k = 46 -> [V EXCEPT !.lv = FP12_usqr(V.lv)]
          [] k = 47 -> [V EXCEPT !.r  = FP12_mul(V.r, V.lv)]

\* PAIR.fexp without its hard part: only the easy part (pair.js 423-430) is executed
PAIR_fexp_easy(m) == Run("PAIR_fexp", [r |-> FP12_new(m)], 1, 8).r

PAIR_fexp(m) == Run("PAIR_fexp", [r |-> FP12_new(m)], 1, 47).r

\* the two lines of the first pass of the Miller loop on the generators, their
\* product by smul and the square of the second
Stype_lines_stmt(V, k) ==
    CASE k = 1 -> [l1 |-> PAIR_line_dbl(ECP2_generator, ECP_generator.x, ECP_generator.y)] @@ V
      [] k = 2 -> [l2 |-> PAIR_line_add(V.l1.A, ECP2_generator, ECP_generator.x, ECP_generator.y)] @@ V
      [] k = 3 -> [sm |-> FP12_smul(V.l1.lv, V.l2.lv)] @@ V
      [] k = 4 -> [sq |-> FP12_sqr(V.l2.lv)] @@ V

\* the methods of FP12 that multiply: statement k is x.sqr(), x.mul(y),
\* x.smul(y), x.ssmul(y), x.usqr(), x.inverse() or x.frob(f)
Stype_op_stmt(V, k) ==
    CASE k = 1 -> [r |-> FP12_sqr(V.x)] @@ V
      [] k = 2 -> [r |-> FP12_mul(V.x, V.y)] @@ V
      [] k = 3 -> [r |-> FP12_smul(V.x, V.y)] @@ V
      [] k = 4 -> [r |-> FP12_ssmul(V.x, V.y)] @@ V
      [] k = 5 -> [r |-> FP12_usqr(V.x)] @@ V
      [] k = 6 -> [r |-> FP12_inverse(V.x)] @@ V
      [] k = 7 -> [r |-> FP12_frob(V.x, PAIR_f)] @@ V

(***************************************************************************)
(* The statements of a routine are executed in order, each on the local     *)
(* variables that the statements before it have left                        *)
(***************************************************************************)
Stmt(prog, V, k) ==
    CASE prog = "FP4_sqr" -> FP4_sqr_stmt(V, k)
      [] prog = "FP4_mul" -> FP4_mul_stmt(V, k)
      [] prog = "FP4_inverse" -> FP4_inverse_stmt(V, k)
      [] prog = "FP12_usqr" -> FP12_usqr_stmt(V, k)
      [] prog = "FP12_sqr" -> FP12_sqr_stmt(V, k)
      [] prog = "FP12_mul" -> FP12_mul_stmt(V, k)
      [] prog = "FP12_smul" -> FP12_smul_stmt(V, k)
      [] prog = "FP12_ssmul_dense" -> FP12_ssmul_dense_stmt(V, k)
      [] prog = "FP12_ssmul_sparser" -> FP12_ssmul_sparser_stmt(V, k)
      [] prog = "FP12_inverse" -> FP12_inverse_stmt(V, k)
      [] prog = "FP12_pow_iter" -> FP12_pow_iter_stmt(V, k)
      [] prog = "FP12_pow" -> FP12_pow_stmt(V, k)
      [] prog = "ECP_dbl" -> ECP_dbl_stmt(V, k)
      [] prog = "ECP_add" -> ECP_add_stmt(V, k)
      [] prog = "ECP_mul" -> ECP_mul_stmt(V, k)
      [] prog = "ECP_mul2_W" -> ECP_mul2_W_stmt(V, k)
      [] prog = "ECP_mul2" -> ECP_mul2_stmt(V, k)
      [] prog = "ECP2_dbl" -> ECP2_dbl_stmt(V, k)
      [] prog = "ECP2_add" -> ECP2_add_stmt(V, k)
      [] prog = "ECP2_mul" -> ECP2_mul_stmt(V, k)
      [] prog = "ECP2_mul4_T" -> ECP2_mul4_T_stmt(V, k)
      [] prog = "ECP2_mul4" -> ECP2_mul4_stmt(V, k)
      [] prog = "PAIR_line_dbl" -> PAIR_line_dbl_stmt(V, k)
      [] prog = "PAIR_line_add" -> PAIR_line_add_stmt(V, k)
      [] prog = "PAIR_ate_iter" -> PAIR_ate_iter_stmt(V, k)
      [] prog = "PAIR_ate" -> PAIR_ate_stmt(V, k)
      [] prog = "PAIR_another_iter" -> PAIR_another_iter_stmt(V, k)
      [] prog = "PAIR_another" -> PAIR_another_stmt(V, k)
      [] prog = "PAIR_ate2_iter" -> PAIR_ate2_iter_stmt(V, k)
      [] prog = "PAIR_ate2" -> PAIR_ate2_stmt(V, k)
      [] prog = "PAIR_fexp" -> PAIR_fexp_stmt(V, k)
      [] prog = "Stype_lines" -> Stype_lines_stmt(V, k)
      [] prog = "Stype_op" -> Stype_op_stmt(V, k)

Run(prog_, V_, lo_, hi_) ==
    Val({(
    IF lo = hi THEN Stmt(prog, V, lo)
    ELSE Run(prog, Run(prog, V, lo, (lo + hi) \div 2), ((lo + hi) \div 2) + 1, hi)
    ) : prog \in {prog_}, V \in {V_}, lo \in {lo_}, hi \in {hi_}})

(***************************************************************************)
(* Reference arithmetic used to state the properties: powers in FP12 by     *)
(* square and multiply with the full multiplication                         *)
(***************************************************************************)
RECURSIVE GT_power(_, _)
GT_power(x_, n_) ==
    Val({(
    IF n = 0 THEN FP12_one
    ELSE Val({IF n % 2 = 1 THEN FP12_mul(FP12_mul(h, h), x) ELSE FP12_mul(h, h)
              : h \in {GT_power(x, n \div 2)}})
    ) : x \in {x_}, n \in {n_}})

(***************************************************************************)
(* Specification SpecPair: one pairing computation for scalars a and b      *)
(***************************************************************************)
InitPair ==
    /\ pc = "start"
    /\ in \in [a : 1..(CURVE_Order - 1), b : 1..(CURVE_Order - 1)]
    /\ out = <<>>
    /\ bnx = CURVE_Bnx

\* G2mul/G1mul of the generators: aP, bQ, bP, aQ
PairPoints ==
    /\ pc = "start"
    /\ pc' = "points"
    /\ out' = [aP |-> ECP2_mul(ECP2_generator, in.a), bQ |-> ECP_mul(ECP_generator, in.b),
               bP |-> ECP2_mul(ECP2_generator, in.b), aQ |-> ECP_mul(ECP_generator, in.a)]
    /\ UNCHANGED <<in, bnx>>

\* the three Miller loops ate(aP, bQ), ate(bP, aQ), ate(P, Q)
PairAte ==
    /\ pc = "points"
    /\ pc' = "miller"
    /\ out' = [mab |-> PAIR_ate(out.aP, out.bQ),
               mba |-> PAIR_ate(out.bP, out.aQ),
               m   |-> PAIR_ate(ECP2_generator, ECP_generator)]
    /\ UNCHANGED <<in, bnx>>

\* the three final exponentiations
PairFexp ==
    /\ pc = "miller"
    /\ pc' = "done"
    /\ out' = [eab |-> PAIR_fexp(out.mab), eba |-> PAIR_fexp(out.mba), e |-> PAIR_fexp(out.m)]
    /\ UNCHANGED <<in, bnx>>

NextPair == PairPoints \/ PairAte \/ PairFexp

SpecPair == InitPair /\ [][NextPair]_vars

\* C1: for all a, b in [1, CURVE_Order), e(aP, bQ) = e(P, Q)^(ab) = e(bP, aQ)
C1_Bilinear ==
    pc = "done" =>
        /\ FP12_equals(out.eab, GT_power(out.e, in.a * in.b))
        /\ FP12_equals(out.eab, out.eba)

C1_Witness ==
    /\ pc = "done"
    /\ in.a = 5 /\ in.b = 11
    /\ ~FP12_isunity(out.eab)
    /\ ~FP12_equals(out.eab, out.e)
(***************************************************************************)
(* Loop parameters.  The digits bt = n3.bit(i) - n.bit(i) of the scaled     *)
(* ROM word are all 0; the digits of the ROM word of the sources take the   *)
(* values -1, 0 and 1.  The Miller loops are run for the ROM word and for   *)
(* two more loop words, one with a digit 1 and one with digits -1.          *)
(***************************************************************************)
LoopWords == {CURVE_Bnx, 2, 4}

\* the points 0*G .. MaxMult*G of G1 and G2 are the arguments of the pairings
MaxMult == 2

\* the number of pairs given to PAIR.another
MaxPairs == 3

(***************************************************************************)
(* Specification SpecMulti: r = initmp(); another(r, P, Q) ...; miller(r)   *)
(***************************************************************************)
InitMulti ==
    /\ pc = "start"
    /\ in = <<>>
    /\ out = <<>>
    /\ bnx \in LoopWords

MpInitmp ==
    /\ pc = "start"
    /\ pc' = "mp"
    /\ out' = [r |-> PAIR_initmp, prod |-> FP12_one, single |-> FP12_one]
    /\ UNCHANGED <<in, bnx>>

\* another(r, a*G2, b*G1); prod is the product of the ate values of the pairs
\* given so far and single the ate value of the last one
MpAnother ==
    /\ pc = "mp"
    /\ Len(in) < MaxPairs
    /\ \E a \in 0..MaxMult, b \in 0..MaxMult :
          \E P \in {ECP2_mul(ECP2_generator, a)}, Q \in {ECP_mul(ECP_generator, b)} :
            \E m \in {PAIR_ate(P, Q)} :
              /\ in' = Append(in, [a |-> a, b |-> b])
              /\ out' = [r |-> PAIR_another(out.r, P, Q), prod |-> FP12_mul(out.prod, m), single |-> m]
    /\ UNCHANGED <<pc, bnx>>

MpMiller ==
    /\ pc = "mp"
    /\ pc' = "done"
    /\ out' = [res |-> PAIR_miller(out.r)] @@ out
    /\ UNCHANGED <<in, bnx>>

NextMulti == MpInitmp \/ MpAnother \/ MpMiller

SpecMulti == InitMulti /\ [][NextMulti]_vars

\* C2: miller(r) after another(r, P_k, Q_k) for each pair of a list is the
\* product of the ate(P_k, Q_k); it is ate(P, Q) for one pair and 1 for none
C2_MultiPairing ==
    pc = "done" =>
        /\ FP12_equals(out.res, out.prod)
        /\ Len(in) = 1 => FP12_equals(out.res, out.single)
        /\ Len(in) = 0 => FP12_isunity(out.res)

C2_Witness ==
    /\ pc = "done"
    /\ Len(in) = 3
    /\ bnx = 4
    /\ in[1] # in[2]
    /\ FP12_equals(out.res, out.prod)
    /\ ~FP12_isunity(out.res)
    /\ ~FP12_equals(out.res, out.single)

(***************************************************************************)
(* Specification SpecAte2: ate2(P, Q, R, S) and ate(P, Q) * ate(R, S)       *)
(***************************************************************************)
InitAte2 ==
    /\ pc = "start"
    /\ in \in [a : 0..MaxMult, b : 0..MaxMult, c : 0..MaxMult, d : 0..MaxMult]
    /\ out = <<>>
    /\ bnx \in LoopWords

Ate2Points ==
    /\ pc = "start"
    /\ pc' = "points"
    /\ out' = [P |-> ECP2_mul(ECP2_generator, in.a), Q |-> ECP_mul(ECP_generator, in.b),
               R |-> ECP2_mul(ECP2_generator, in.c), S |-> ECP_mul(ECP_generator, in.d)]
    /\ UNCHANGED <<in, bnx>>

Ate2Run ==
    /\ pc = "points"
    /\ pc' = "done"
    /\ out' = [r2 |-> PAIR_ate2(out.P, out.Q, out.R, out.S),
               pq |-> PAIR_ate(out.P, out.Q),
               rs |-> PAIR_ate(out.R, out.S)]
    /\ UNCHANGED <<in, bnx>>

NextAte2 == Ate2Points \/ Ate2Run

SpecAte2 == InitAte2 /\ [][NextAte2]_vars

\* C3: ate2(P, Q, R, S) is the Fp12 value ate(P, Q) * ate(R, S)
C3_Ate2 ==
    pc = "done" => FP12_equals(out.r2, FP12_mul(out.pq, out.rs))

C3_Witness ==
    /\ pc = "done"
    /\ bnx = 2
    /\ in.a = 1 /\ in.b = 2 /\ in.c = 2 /\ in.d = 1
    /\ FP12_equals(out.r2, FP12_mul(out.pq, out.rs))
    /\ ~FP12_isunity(out.r2)
    /\ ~FP12_equals(out.pq, out.rs)

(***************************************************************************)
(* Reference: the group law of y^2 = x^3 + b in affine coordinates over     *)
(* F_p^2 (chord and tangent), written with plain integer arithmetic.  A     *)
(* point of E(F_p) has coordinates <<x, 0>>, <<y, 0>>.                      *)
(***************************************************************************)
Ref_inv(a) == CHOOSE b \in 0 .. (Modulus - 1) : (a * b) % Modulus = 1

Ref2_add(a, b) == <<(a[1] + b[1]) % Modulus, (a[2] + b[2]) % Modulus>>

Ref2_sub(a, b) == <<(a[1] - b[1]) % Modulus, (a[2] - b[2]) % Modulus>>

Ref2_mul(a_, b_) ==
    Val({<<(a[1] * b[1] - a[2] * b[2]) % Modulus, (a[1] * b[2] + a[2] * b[1]) % Modulus>>
         : a \in {a_}, b \in {b_}})

Ref2_inv(a_) ==
    Val({<<(a[1] * n) % Modulus, ((Modulus - a[2]) * n) % Modulus>>
         : a \in {a_}, n \in {Ref_inv((a_[1] * a_[1] + a_[2] * a_[2]) % Modulus)}})

Ref_inf == [inf |-> TRUE, x |-> <<0, 0>>, y |-> <<0, 0>>]

Ref_chord(P_, Q_, m_) ==
    Val({[inf |-> FALSE, x |-> x3, y |-> Ref2_sub(Ref2_mul(m, Ref2_sub(P.x, x3)), P.y)]
         : P \in {P_}, m \in {m_}, x3 \in {Ref2_sub(Ref2_sub(Ref2_mul(m_, m_), P_.x), Q_.x)}})

Ref_add(P_, Q_) ==
    Val({(
    IF P.inf THEN Q
    ELSE IF Q.inf THEN P
    ELSE IF P.x = Q.x /\ (P.y # Q.y \/ P.y = <<0, 0>>) THEN Ref_inf
    ELSE IF P.x = Q.x
         THEN Ref_chord(P, Q, Ref2_mul(Ref2_mul(<<3, 0>>, Ref2_mul(P.x, P.x)),
                                       Ref2_inv(Ref2_add(P.y, P.y))))
         ELSE Ref_chord(P, Q, Ref2_mul(Ref2_sub(Q.y, P.y), Ref2_inv(Ref2_sub(Q.x, P.x))))
    ) : P \in {P_}, Q \in {Q_}})

\* n*P for n >= 0: 2*(n/2)*P for an even n, (n-1)*P + P for an odd n
RECURSIVE Ref_mul(_, _)
Ref_mul(P_, n_) ==
    Val({(
    IF n = 0 THEN Ref_inf
    ELSE IF n % 2 = 1 THEN Ref_add(Ref_mul(P, n - 1), P)
    ELSE Val({Ref_add(h, h) : h \in {Ref_mul(P, n \div 2)}})
    ) : P \in {P_}, n \in {n_} })

Ref_neg(P_) == Val({[P EXCEPT !.y = Ref2_sub(<<0, 0>>, @)] : P \in {P_}})

\* n*P for any integer n
Ref_smul(P, n) == IF n < 0 THEN Ref_neg(Ref_mul(P, -n)) ELSE Ref_mul(P, n)

Ref_G1 == [inf |-> FALSE, x |-> <<CURVE_Gx, 0>>, y |-> <<CURVE_Gy, 0>>]

Ref_G2 == [inf |-> FALSE, x |-> <<CURVE_Pxa, CURVE_Pxb>>, y |-> <<CURVE_Pya, CURVE_Pyb>>]

\* the affine point an ECP object stands for
Ref_ofECP(P_) ==
    Val({(
    IF FP_iszilch(P.z) THEN [inf |-> TRUE, x |-> <<FP_redc(P.x), 0>>, y |-> <<0, 0>>]
    ELSE [inf |-> FALSE, x |-> <<(FP_redc(P.x) * zi) % Modulus, 0>>,
                         y |-> <<(FP_redc(P.y) * zi) % Modulus, 0>>]
    ) : P \in {P_}, zi \in {IF FP_iszilch(P_.z) THEN 0 ELSE Ref_inv(FP_redc(P_.z))}})

\* the affine point an ECP2 object stands for
Ref_ofECP2(P_) ==
    Val({(
    IF FP2_iszilch(P.z) THEN [inf |-> TRUE, x |-> P.x, y |-> <<0, 0>>]
    ELSE [inf |-> FALSE, x |-> Ref2_mul(P.x, zi), y |-> Ref2_mul(P.y, zi)]
    ) : P \in {P_}, zi \in {IF FP2_iszilch(P_.z) THEN <<0, 0>> ELSE Ref2_inv(P_.z)}})

(***************************************************************************)
(* Scalar multiplication: ECP.mul and ECP2.mul applied to every point of    *)
(* the two groups, in affine and in projective form                         *)
(***************************************************************************)
MaxPoint == 12
MaxScalar == 34
Forms == {"affine", "projective"}

\* the ECP object for k*G: built by setxy, or left unnormalised by dbl
ECP_point(k_, form_) ==
    Val({(
    IF form = "affine" THEN (IF R.inf THEN ECP_new ELSE ECP_setxy(R.x[1], R.y[1]))
    ELSE ECP_dbl(IF H.inf THEN ECP_new ELSE ECP_setxy(H.x[1], H.y[1]))
    ) : form \in {form_}, R \in {Ref_mul(Ref_G1, k_)},
        H \in {Ref_mul(Ref_G1, (k_ * ((CURVE_Order + 1) \div 2)) % CURVE_Order)}})

\* the ECP2 object for k*G2
ECP2_point(k_, form_) ==
    Val({(
    IF form = "affine" THEN (IF R.inf THEN ECP2_new ELSE ECP2_setxy(R.x, R.y))
    ELSE ECP2_dbl(IF H.inf THEN ECP2_new ELSE ECP2_setxy(H.x, H.y))
    ) : form \in {form_}, R \in {Ref_mul(Ref_G2, k_)},
        H \in {Ref_mul(Ref_G2, (k_ * ((CURVE_Order + 1) \div 2)) % CURVE_Order)}})

InitMul ==
    /\ pc = "start"
    /\ in \in [k : 0 .. MaxPoint, e : 0 .. MaxScalar, form : Forms]
    /\ out = <<>>
    /\ bnx = CURVE_Bnx

MulPoints ==
    /\ pc = "start"
    /\ pc' = "points"
    /\ out' = [P |-> ECP_point(in.k, in.form), Q |-> ECP2_point(in.k, in.form)]
    /\ UNCHANGED <<in, bnx>>

MulEcp ==
    /\ pc = "points"
    /\ pc' = "ecp"
    /\ out' = [r1 |-> ECP_mul(out.P, in.e),
               ref1 |-> Ref_mul(Ref_mul(Ref_G1, in.k), in.e)] @@ out
    /\ UNCHANGED <<in, bnx>>

MulEcp2 ==
    /\ pc = "ecp"
    /\ pc' = "done"
    /\ out' = [r2 |-> ECP2_mul(out.Q, in.e),
               ref2 |-> Ref_mul(Ref_mul(Ref_G2, in.k), in.e)] @@ out
    /\ UNCHANGED <<in, bnx>>

NextMul == MulPoints \/ MulEcp \/ MulEcp2

SpecMul == InitMul /\ [][NextMul]_vars

\* C4: ECP.mul(e) and ECP2.mul(e) return the point e*P for every scalar
\* e >= 0 and every point P; the result is the point at infinity when e = 0,
\* when P is the point at infinity and when e is the group order
C4_ScalarMul ==
    pc = "done" =>
        /\ Ref_ofECP(out.r1) = out.ref1
        /\ Ref_ofECP2(out.r2) = out.ref2
        /\ (in.e = 0 \/ ECP_is_infinity(out.P) \/ in.e = CURVE_Order) =>
               ECP_is_infinity(out.r1) /\ ECP2_is_infinity(out.r2)

C4_Witness ==
    /\ pc = "done"
    /\ in.k = 3 /\ in.e = 30 /\ in.form = "projective"
    /\ ~ECP_is_infinity(out.P) /\ ~FP_equals(out.P.z, FP_nres(1))
    /\ Ref_ofECP(out.r1) = out.ref1 /\ ~out.ref1.inf
    /\ Ref_ofECP2(out.r2) = out.ref2 /\ ~out.ref2.inf
    /\ out.ref1 # Ref_ofECP(out.P)

(***************************************************************************)
(* Double scalar multiplication: ECP.mul2                                   *)
(***************************************************************************)
MaxSmall == 9
BigScalar == 1000
Scalars2 == (0 .. MaxSmall) \cup {CURVE_Order, BigScalar}

\* infinity, G, 2G and -G
Points2 == {0, 1, 2, CURVE_Order - 1}

InitMul2 ==
    /\ pc = "start"
    /\ in \in [j : Points2, k : Points2, e : Scalars2, f : Scalars2, form : Forms]
    /\ out = <<>>
    /\ bnx = CURVE_Bnx

Mul2Points ==
    /\ pc = "start"
    /\ pc' = "points"
    /\ out' = [P |-> ECP_point(in.j, in.form), Q |-> ECP_point(in.k, in.form)]
    /\ UNCHANGED <<in, bnx>>

Mul2Run ==
    /\ pc = "points"
    /\ pc' = "done"
    /\ out' = [r |-> ECP_mul2(out.P, in.e, out.Q, in.f),
               W |-> ECP_mul2_W(out.P, out.Q),
               C |-> ECP_mul2_C(out.P, in.e, out.Q, in.f),
               nb |-> 1 + ((BIG_nbits(ECP_mul_t(in.e) + ECP_mul_t(in.f)) + 1) \div 2),
               RP |-> Ref_mul(Ref_G1, in.j), RQ |-> Ref_mul(Ref_G1, in.k)] @@ out
    /\ UNCHANGED <<in, bnx>>

NextMul2 == Mul2Points \/ Mul2Run

SpecMul2 == InitMul2 /\ [][NextMul2]_vars

\* the digits a and b of the window i of the recoded scalars of the state
Mul2_a(i) ==
    IF i = out.nb THEN BIG_lastbits(ECP_mul2_rest(ECP_mul_t(in.e), i), 3)
    ELSE BIG_lastbits(ECP_mul2_rest(ECP_mul_t(in.e), i), 3) - 4

Mul2_b(i) ==
    IF i = out.nb THEN BIG_lastbits(ECP_mul2_rest(ECP_mul_t(in.f), i), 3)
    ELSE BIG_lastbits(ECP_mul2_rest(ECP_mul_t(in.f), i), 3) - 4

\* C5: P.mul2(e, Q, f) is e*P + f*Q; the table entry selected by every window
\* value 4a+b is a*P + b*Q; the correction C subtracted at the end is what
\* was added to the scalars
C5_Mul2 ==
    pc = "done" =>
        /\ Ref_ofECP(out.r) = Ref_add(Ref_mul(out.RP, in.e), Ref_mul(out.RQ, in.f))
        /\ \A i \in 0 .. out.nb :
               Ref_ofECP(ECP_select(ECP_new, out.W,
                                    ECP_mul2_w(ECP_mul_t(in.e), ECP_mul_t(in.f), i, out.nb)))
                   = Ref_add(Ref_smul(out.RP, Mul2_a(i)), Ref_smul(out.RQ, Mul2_b(i)))
        /\ Ref_ofECP(out.C) = Ref_add(Ref_mul(out.RP, ECP_mul_t(in.e) - in.e),
                                      Ref_mul(out.RQ, ECP_mul_t(in.f) - in.f))

C5_Witness ==
    /\ pc = "done"
    /\ in.j = 1 /\ in.k = 2 /\ in.e = BigScalar /\ in.f = 3 /\ in.form = "projective"
    /\ out.nb >= 6
    /\ \E i \in 0 .. (out.nb - 1) : Mul2_a(i) < 0 /\ Mul2_b(i) > 0
    /\ Ref_ofECP(out.r) = Ref_add(Ref_mul(out.RP, in.e), Ref_mul(out.RQ, in.f))
    /\ ~Ref_ofECP(out.r).inf

(***************************************************************************)
(* Four-way multi-scalar multiplication: ECP2.mul4                          *)
(***************************************************************************)
MaxU == 3
BigU == 37
Scalars4 == (0 .. MaxU) \cup {BigU}

\* the multiples of the generator taken as Q[0..3]
PointQuads == {<<1, 2, 3, 4>>, <<1, 1, CURVE_Order - 1, 0>>, <<0, 0, 0, 0>>, <<2, 7, 7, 11>>}

InitMul4 ==
    /\ pc = "start"
    /\ in \in [q : PointQuads, u : [1 .. 4 -> Scalars4], form : Forms]
    /\ out = <<>>
    /\ bnx = CURVE_Bnx

Mul4Points ==
    /\ pc = "start"
    /\ pc' = "points"
    /\ out' = [Q |-> [j \in 1 .. 4 |-> ECP2_point(in.q[j], in.form)]]
    /\ UNCHANGED <<in, bnx>>

Mul4Run ==
    /\ pc = "points"
    /\ pc' = "done"
    /\ out' = [r |-> ECP2_mul4(out.Q, in.u),
               RQ |-> [j \in 1 .. 4 |-> Ref_mul(Ref_G2, in.q[j])]] @@ out
    /\ UNCHANGED <<in, bnx>>

NextMul4 == Mul4Points \/ Mul4Run

SpecMul4 == InitMul4 /\ [][NextMul4]_vars

\* the registers of mul4 for the scalars of the state: pb, t0, nb and w
Mul4_pb == 1 - BIG_parity(in.u[1])

Mul4_t0 == in.u[1] + Mul4_pb

Mul4_nb == 1 + BIG_nbits(BIG_or(BIG_or(BIG_or(Mul4_t0, in.u[2]), in.u[3]), in.u[4]))

Mul4_w == ECP2_mul4_w(<<>>, <<in.u[2], in.u[3], in.u[4]>>, Mul4_t0, Mul4_nb, 0)

Mul4_abs(x) == IF x < 0 THEN -x ELSE x

\* the sum of d(i) * 2^i for i in lo .. hi
RECURSIVE Mul4_sum(_, _, _)
Mul4_sum(d, lo, hi) == IF lo > hi THEN 0 ELSE d[lo] + 2 * Mul4_sum(d, lo + 1, hi)

\* the digits of scalar j (1 .. 3) held by the recoded words w
Mul4_digits(j) ==
    [i \in 0 .. (Mul4_nb - 1) |->
        ECP2_mul4_s(Mul4_t0, i, Mul4_nb) * ((Mul4_abs(Mul4_w[i + 1]) \div (2 ^ (j - 1))) % 2)]

\* C6: ECP2.mul4(Q, u) is u[0]*Q[0] + u[1]*Q[1] + u[2]*Q[2] + u[3]*Q[3]; the
\* sign pivots are the digits of u[0] made odd, the recoded words hold the
\* digits of u[1], u[2], u[3]
C6_Mul4 ==
    pc = "done" =>
        /\ Ref_ofECP2(out.r)
               = Ref_add(Ref_add(Ref_mul(out.RQ[1], in.u[1]), Ref_mul(out.RQ[2], in.u[2])),
                         Ref_add(Ref_mul(out.RQ[3], in.u[3]), Ref_mul(out.RQ[4], in.u[4])))
        /\ Mul4_sum([i \in 0 .. (Mul4_nb - 1) |-> ECP2_mul4_s(Mul4_t0, i, Mul4_nb)],
                    0, Mul4_nb - 1) = in.u[1] + Mul4_pb
        /\ \A j \in 1 .. 3 : Mul4_sum(Mul4_digits(j), 0, Mul4_nb - 1) = in.u[j + 1]
        /\ \A i \in 1 .. Mul4_nb :
               Mul4_w[i] # 0 => (Mul4_w[i] > 0) = (ECP2_mul4_s(Mul4_t0, i - 1, Mul4_nb) = 1)

C6_Witness ==
    /\ pc = "done"
    /\ in.q = <<1, 2, 3, 4>> /\ in.u = <<2, BigU, 3, 1>> /\ in.form = "projective"
    /\ Mul4_pb = 1
    /\ \E i \in 1 .. Mul4_nb : Mul4_w[i] < 0
    /\ Ref_ofECP2(out.r)
           = Ref_add(Ref_add(Ref_mul(out.RQ[1], in.u[1]), Ref_mul(out.RQ[2], in.u[2])),
                     Ref_add(Ref_mul(out.RQ[3], in.u[3]), Ref_mul(out.RQ[4], in.u[4])))
    /\ ~Ref_ofECP2(out.r).inf

(***************************************************************************)
(* The sequence of point operations ECP.mul executes                        *)
(***************************************************************************)
\* the operations of the window loop from window i down to window 0
RECURSIVE ECP_mul_trace_loop(_)
ECP_mul_trace_loop(i) ==
    IF i < 0 THEN <<>>
    ELSE <<"select", "dbl", "dbl", "dbl", "dbl", "add">> \o ECP_mul_trace_loop(i - 1)

\* the operations of P.mul(e), in the order of the statements of mul
ECP_mul_trace(P_, e_) ==
    Val({(
    IF e = 0 \/ ECP_is_infinity(P) THEN <<"return">>
    ELSE <<"dbl">> \o [i \in 1 .. 7 |-> "add"] \o <<"cmove">>
         \o ECP_mul_trace_loop(ECP_mul_nb(e) - 1) \o <<"sub", "affine">>
    ) : P \in {P_}, e \in {e_}})

MaxTrace == 17
TracePoints == {0, 1}

InitTrace ==
    /\ pc = "start"
    /\ in \in [k : TracePoints, e1 : 0 .. MaxTrace, e2 : 0 .. MaxTrace]
    /\ out = <<>>
    /\ bnx = CURVE_Bnx

TraceFirst ==
    /\ pc = "start"
    /\ pc' = "first"
    /\ out' = [t1 |-> ECP_mul_trace(ECP_point(in.k, "affine"), in.e1)]
    /\ UNCHANGED <<in, bnx>>

TraceSecond ==
    /\ pc = "first"
    /\ pc' = "done"
    /\ out' = [t2 |-> ECP_mul_trace(ECP_point(in.k, "affine"), in.e2)] @@ out
    /\ UNCHANGED <<in, bnx>>

NextTrace == TraceFirst \/ TraceSecond

SpecTrace == InitTrace /\ [][NextTrace]_vars

\* C7: for two scalars of the same bit length and the same point, ECP.mul
\* executes the same sequence of point operations
C7_ConstantTime ==
    pc = "done" => (BIG_nbits(in.e1) = BIG_nbits(in.e2) => out.t1 = out.t2)

(***************************************************************************)
(* Serialization of ECP: toBytes, then fromBytes                            *)
(***************************************************************************)
InitBytes ==
    /\ pc = "start"
    /\ in \in [k : 0 .. MaxPoint, form : Forms, compress : BOOLEAN]
    /\ out = <<>>
    /\ bnx = CURVE_Bnx

BytesPoint ==
    /\ pc = "start"
    /\ pc' = "point"
    /\ out' = [P |-> ECP_point(in.k, in.form)]
    /\ UNCHANGED <<in, bnx>>

BytesWrite ==
    /\ pc = "point"
    /\ pc' = "written"
    /\ out' = [b |-> ECP_toBytes(out.P, in.compress)] @@ out
    /\ UNCHANGED <<in, bnx>>

BytesRead ==
    /\ pc = "written"
    /\ pc' = "done"
    /\ out' = [R |-> ECP_fromBytes(out.b)] @@ out
    /\ UNCHANGED <<in, bnx>>

NextBytes == BytesPoint \/ BytesWrite \/ BytesRead

SpecBytes == InitBytes /\ [][NextBytes]_vars

\* C8: fromBytes of the bytes toBytes writes for a point P other than
\* infinity is a point equal to P, compressed or not; the compressed tag is
\* 2 for an even affine y and 3 for an odd one, and setxi of the affine x and
\* of that parity is P again
C8_RoundTrip ==
    (pc = "done" /\ ~ECP_is_infinity(out.P)) =>
        /\ ~ECP_is_infinity(out.R)
        /\ ECP_equals(out.R, out.P)
        /\ Ref_ofECP(out.R) = Ref_mul(Ref_G1, in.k)
        /\ Len(out.b) = (IF in.compress THEN 1 + MODBYTES ELSE 1 + 2 * MODBYTES)
        /\ out.b[1] = (IF ~in.compress THEN 4
                       ELSE IF Ref_mul(Ref_G1, in.k).y[1] % 2 = 0 THEN 2 ELSE 3)
        /\ \A t \in {2, 3} :
               LET S == Ref_ofECP(ECP_setxi(Ref_mul(Ref_G1, in.k).x[1], t % 2))
               IN  /\ ~S.inf
                   /\ S.x = Ref_mul(Ref_G1, in.k).x
                   /\ S.y[1] % 2 = t % 2
                   /\ S.y \in {Ref_mul(Ref_G1, in.k).y, Ref_neg(Ref_mul(Ref_G1, in.k)).y}

C8_Witness ==
    /\ pc = "done"
    /\ in.compress /\ in.form = "projective"
    /\ ~ECP_is_infinity(out.P)
    /\ out.b[1] = 3
    /\ FP_redc(FP_sqrt(ECP_RHS(out.R.x))) % 2 = 0
    /\ ECP_equals(out.R, out.P)

(***************************************************************************)
(* ECP.fromBytes on arbitrary arrays                                        *)
(***************************************************************************)
MaxTag == 6
MaxCoord == 21

\* the bytes of an integer, most significant first
Ref_bytes(x) == [i \in 1 .. MODBYTES |-> (x \div (256 ^ (MODBYTES - i))) % 256]

\* the integers encoded: small ones, and two above 255 that end with the
\* bytes of the generator's coordinates
Coords == (0 .. MaxCoord) \cup {256 + CURVE_Gx, 256 + CURVE_Gy}

\* the lengths of the arrays: empty, compressed, uncompressed
Lens == {0, 1 + MODBYTES, 1 + 2 * MODBYTES}

InitDecode ==
    /\ pc = "start"
    /\ in \in [tag : 0 .. MaxTag, x : Coords, y : Coords, n : Lens]
    /\ out = <<>>
    /\ bnx = CURVE_Bnx

DecodeArray ==
    /\ pc = "start"
    /\ pc' = "array"
    /\ out' = [b |-> SubSeq(<<in.tag>> \o Ref_bytes(in.x) \o Ref_bytes(in.y), 1, in.n)]
    /\ UNCHANGED <<in, bnx>>

DecodeRead ==
    /\ pc = "array"
    /\ pc' = "done"
    /\ out' = [P |-> ECP_fromBytes(out.b)] @@ out
    /\ UNCHANGED <<in, bnx>>

NextDecode == DecodeArray \/ DecodeRead

SpecDecode == InitDecode /\ [][NextDecode]_vars

\* the integers the array encodes (an absent byte reads as 0)
Dec_x == IF in.n >= 1 + MODBYTES THEN in.x ELSE 0

Dec_y == IF in.n >= 1 + 2 * MODBYTES THEN in.y ELSE 0

Dec_rhs == (Dec_x * Dec_x * Dec_x + CURVE_B_I) % Modulus

\* C9: ECP.fromBytes returns infinity when the encoded x >= p; when the tag
\* is 4 and the encoded y >= p or (x, y) is not on the curve; when the tag
\* is 2 or 3 and x^3 + b is not a quadratic residue; when the tag is none of
\* 2, 3, 4.  It returns a point for every array.
C9_Invalid ==
    pc = "done" =>
        /\ out.P.x \in 0 .. (Modulus - 1) /\ out.P.y \in 0 .. (Modulus - 1)
        /\ out.P.z \in {0, 1}
        /\ Dec_x >= Modulus => ECP_is_infinity(out.P)
        /\ (in.n > 0 /\ in.tag = 4 /\ (Dec_y >= Modulus \/ (Dec_y * Dec_y) % Modulus # Dec_rhs))
               => ECP_is_infinity(out.P)
        /\ (in.n > 0 /\ in.tag \in {2, 3}
                     /\ ~\E r \in 1 .. (Modulus - 1) : (r * r) % Modulus = Dec_rhs)
               => ECP_is_infinity(out.P)
        /\ (in.n = 0 \/ in.tag \notin {2, 3, 4}) => ECP_is_infinity(out.P)

C9_Witness ==
    /\ pc = "done"
    /\ in.n = 1 + 2 * MODBYTES /\ in.tag = 4
    /\ in.x = CURVE_Gx /\ in.y = CURVE_Gy + 1
    /\ in.x < Modulus /\ in.y < Modulus
    /\ (in.y * in.y) % Modulus # Dec_rhs
    /\ ECP_is_infinity(out.P)

(***************************************************************************)
(* ECP2.fromBytes on the arrays of a point of the twist with coordinates    *)
(* raised by multiples of the modulus, or with a changed y                  *)
(***************************************************************************)
MaxWrap == 1
MaxShift == 1

InitDecode2 ==
    /\ pc = "start"
    /\ in \in [k : 1 .. MaxPoint, wrap : [1 .. 4 -> 0 .. MaxWrap], shift : 0 .. MaxShift]
    /\ out = <<>>
    /\ bnx = CURVE_Bnx

\* the four integers written: the coordinates of k*G2, each plus wrap times
\* the modulus, the first y coordinate moved by shift
Decode2Array ==
    /\ pc = "start"
    /\ pc' = "array"
    /\ \E R \in {Ref_mul(Ref_G2, in.k)} :
       \E c \in {<<R.x[1] + in.wrap[1] * Modulus, R.x[2] + in.wrap[2] * Modulus,
                  ((R.y[1] + in.shift) % Modulus) + in.wrap[3] * Modulus,
                  R.y[2] + in.wrap[4] * Modulus>>} :
           out' = [c |-> c,
                   b |-> Ref_bytes(c[1]) \o Ref_bytes(c[2]) \o Ref_bytes(c[3]) \o Ref_bytes(c[4])]
    /\ UNCHANGED <<in, bnx>>

Decode2Read ==
    /\ pc = "array"
    /\ pc' = "done"
    /\ out' = [P |-> ECP2_fromBytes(out.b)] @@ out
    /\ UNCHANGED <<in, bnx>>

NextDecode2 == Decode2Array \/ Decode2Read

SpecDecode2 == InitDecode2 /\ [][NextDecode2]_vars

\* (x, y) is on the twist y^2 = x^3 + b/(1+i)
Ref_onTwist(x, y) ==
    Ref2_mul(y, y) = Ref2_add(Ref2_mul(x, Ref2_mul(x, x)),
                              Ref2_mul(<<CURVE_B_I, 0>>, Ref2_inv(<<1, 1>>)))

\* C10: ECP2.fromBytes returns infinity for every array in which one of the
\* four coordinates encodes an integer >= p, and for every array whose
\* (x, y) is not on the twist
C10_Invalid2 ==
    pc = "done" =>
        (((\E j \in 1 .. 4 : out.c[j] >= Modulus)
          \/ ~Ref_onTwist(<<out.c[1], out.c[2]>>, <<out.c[3], out.c[4]>>))
             => ECP2_is_infinity(out.P))

(***************************************************************************)
(* BIG and FP on limbs.  A BIG is the sequence of its NLEN limbs (w[0] of   *)
(* the source is element 1), a DBIG the sequence of its DNLEN limbs, an FP  *)
(* the record [f, XES].  The field of this part is the 18-bit prime 190027  *)
(* in 2 limbs of 14 bits: the modulus ends in the top limb with TBITS bits  *)
(* and leaves 10 bits of excess, as the 254-bit modulus does in 11 limbs of *)
(* 24 bits, and it fits the MODBYTES bytes of a BIG.  A limb is a           *)
(* JavaScript number: x & BMASK is x mod 2^BASEBITS, x >> k is the floor of *)
(* x / 2^k, for a negative x too.                                           *)
(***************************************************************************)
BIG_CHUNK == 32
BIG_BASEBITS == 14
BIG_NLEN == 1 + ((8 * MODBYTES - 1) \div BIG_BASEBITS)
BIG_DNLEN == 2 * BIG_NLEN
BIG_BMASK == (2 ^ BIG_BASEBITS) - 1

FP_MODBITS == 18
FP_FEXCESS == (2 ^ 10) - 1
FP_TBITS == FP_MODBITS % BIG_BASEBITS

\* the ROM of the field: the modulus p, -1/p mod 2^BASEBITS, 2^(2*BASEBITS*NLEN) mod p
ROM_Modulus == <<9803, 11>>
ROM_MConst == 3229
ROM_R2modp == <<3878, 6>>

\* the sum of f[lo], ..., f[hi]
RECURSIVE BIG_sigma(_, _, _)
BIG_sigma(f, lo, hi) == IF lo > hi THEN 0 ELSE f[lo] + BIG_sigma(f, lo + 1, hi)

BIG_w_iszilch(a) == \A i \in 1 .. BIG_NLEN : a[i] = 0

\* the carry loop that ends BIG.mul: c.w[i] = n & BMASK, co = (n - c.w[i]) * MODINV
RECURSIVE BIG_mul_carry(_, _, _)
BIG_mul_carry(c_, i_, co_) ==
    Val({(
    IF i > BIG_DNLEN - 1 THEN c
    ELSE IF i = BIG_DNLEN - 1 THEN [c EXCEPT ![i + 1] = co]
    ELSE BIG_mul_carry([c EXCEPT ![i + 1] = (c[i + 1] + co) % (BIG_BMASK + 1)],
                       i + 1, (c[i + 1] + co) \div (BIG_BMASK + 1))
    ) : c \in {c_}, i \in {i_}, co \in {co_}})

\* BIG.mul: column k is the sum of the products d[i] of its range plus the
\* cross terms (a[i] - a[k-i]) * (b[k-i] - b[i])
BIG_mul(a_, b_) ==
    Val({(
    LET N == BIG_NLEN
        d == [i \in 0 .. (N - 1) |-> a[i + 1] * b[i + 1]]
        x(k) == [i \in (1 + (k \div 2)) .. (IF k < N THEN k ELSE N - 1) |->
                    (a[i + 1] - a[k - i + 1]) * (b[k - i + 1] - b[i + 1])]
        t(k) == (IF k < N THEN BIG_sigma(d, 0, k) ELSE BIG_sigma(d, k - N + 1, N - 1))
                + BIG_sigma(x(k), 1 + (k \div 2), IF k < N THEN k ELSE N - 1)
    IN  BIG_mul_carry([k \in 1 .. BIG_DNLEN |-> IF k < BIG_DNLEN THEN t(k - 1) ELSE 0], 0, 0)
    ) : a \in {a_}, b \in {b_}})

\* BIG.monty, first loop: the registers v, c, s after iteration k (k = 0 is
\* the code before the loop)
RECURSIVE BIG_monty_fwd(_, _, _, _)
BIG_monty_fwd(m_, nd_, d_, k_) ==
    Val({(
    IF k = 0
    THEN Val({[v |-> <<v0>>, c |-> d[2] + ((d[1] + v0 * m[1]) \div (BIG_BMASK + 1)), s |-> 0]
              : v0 \in {((d[1] % (BIG_BMASK + 1)) * nd) % (BIG_BMASK + 1)}})
    ELSE Val({
         Val({[v |-> Append(P.v, vk),
               c |-> ((t + vk * m[1]) \div (BIG_BMASK + 1)) + d[k + 2],
               s |-> P.s + vk * m[k + 1]]
              : vk \in {((t % (BIG_BMASK + 1)) * nd) % (BIG_BMASK + 1)}})
         : t \in {P.c + P.s + P.v[1] * m[k + 1]
                  + BIG_sigma([i \in (1 + (k \div 2)) .. (k - 1) |->
                                  (P.v[k - i + 1] - P.v[i + 1]) * (m[i + 1] - m[k - i + 1])],
                              1 + (k \div 2), k - 1)}})
    ) : m \in {m_}, nd \in {nd_}, d \in {d_}, k \in {k_}, P \in {IF k_ = 0 THEN <<>> ELSE BIG_monty_fwd(m_, nd_, d_, k_ - 1)}})

\* BIG.monty, second loop: the registers b, c, s after iteration k
\* (k = NLEN - 1 is the state the first loop leaves); F.v are the v[i]
RECURSIVE BIG_monty_back(_, _, _, _)
BIG_monty_back(m_, d_, F_, k_) ==
    Val({(
    IF k = BIG_NLEN - 1 THEN [b |-> <<>>, c |-> F.c, s |-> F.s]
    ELSE Val({
         [b |-> Append(P.b, t % (BIG_BMASK + 1)),
          c |-> ((t - (t % (BIG_BMASK + 1))) \div (BIG_BMASK + 1)) + d[k + 2],
          s |-> P.s - F.v[k - BIG_NLEN + 2] * m[k - BIG_NLEN + 2]]
         : t \in {P.c + P.s
                  + BIG_sigma([i \in (1 + (k \div 2)) .. (BIG_NLEN - 1) |->
                                  (F.v[k - i + 1] - F.v[i + 1]) * (m[i + 1] - m[k - i + 1])],
                              1 + (k \div 2), BIG_NLEN - 1)}})
    ) : m \in {m_}, d \in {d_}, F \in {F_}, k \in {k_},
        P \in {IF k_ = BIG_NLEN - 1 THEN <<>> ELSE BIG_monty_back(m_, d_, F_, k_ - 1)}})

\* BIG.monty: no subtraction of the modulus follows the last limb
BIG_monty(m_, nd_, d_) ==
    Val({Append(B.b, B.c % (BIG_BMASK + 1))
         : B \in {BIG_monty_back(m_, d_, BIG_monty_fwd(m_, nd_, d_, BIG_NLEN - 1), 2 * BIG_NLEN - 2)}})

FP_mod(d) == BIG_monty(ROM_Modulus, ROM_MConst, d)

\* nres on limbs: f = mod(f * R2modp), XES = 2
FP_w_nres(x) == [f |-> FP_mod(BIG_mul(x.f, ROM_R2modp)), XES |-> 2]

\* new FP(x) for a BIG x
FP_w_new(x) == IF BIG_w_iszilch(x) THEN [f |-> x, XES |-> 1] ELSE FP_w_nres([f |-> x, XES |-> 1])

\* redc on limbs: mod of the DBIG whose bottom half is f
FP_w_redc(x) == FP_mod(x.f \o [i \in 1 .. BIG_NLEN |-> 0])

\* the integer a sequence of limbs stands for, and the normalised limbs of an integer
Ref_value(w) == BIG_sigma([i \in 1 .. Len(w) |-> w[i] * (2 ^ (BIG_BASEBITS * (i - 1)))], 1, Len(w))

Ref_limbs(v) ==
    [i \in 1 .. BIG_NLEN |-> IF i < BIG_NLEN THEN (v \div (2 ^ (BIG_BASEBITS * (i - 1)))) % (BIG_BMASK + 1)
                             ELSE v \div (2 ^ (BIG_BASEBITS * (i - 1)))]

(***************************************************************************)
(* Montgomery round trip: new FP(a), then redc                              *)
(***************************************************************************)
MaxNear == 20

\* the integers a: the small ones, those around the modulus, the largest of
\* 8 * MODBYTES bits
MontyInputs ==
    (0 .. MaxNear)
    \cup ((Ref_value(ROM_Modulus) - MaxNear) .. (Ref_value(ROM_Modulus) + MaxNear))
    \cup (((2 ^ (8 * MODBYTES)) - 1 - MaxNear) .. ((2 ^ (8 * MODBYTES)) - 1))

InitMonty ==
    /\ pc = "start"
    /\ in \in [a : MontyInputs]
    /\ out = <<>>
    /\ bnx = CURVE_Bnx

MontyNew ==
    /\ pc = "start"
    /\ pc' = "fp"
    /\ out' = [x |-> FP_w_new(Ref_limbs(in.a))]
    /\ UNCHANGED <<in, bnx>>

MontyRedc ==
    /\ pc = "fp"
    /\ pc' = "done"
    /\ out' = [r |-> FP_w_redc(out.x)] @@ out
    /\ UNCHANGED <<in, bnx>>

NextMonty == MontyNew \/ MontyRedc

SpecMonty == InitMonty /\ [][NextMonty]_vars

\* C11: for every BIG a, redc of the FP constructed from a is a mod p, a
\* value of [0, p)
C11_RoundTrip ==
    pc = "done" =>
        /\ Ref_value(out.r) = in.a % Ref_value(ROM_Modulus)
        /\ Ref_value(out.r) \in 0 .. (Ref_value(ROM_Modulus) - 1)

(***************************************************************************)
(* Square roots in FP2 and FP4.  sqrt changes its receiver and returns a    *)
(* boolean: the operators give the record [ok, x] of the value returned and *)
(* the receiver after the call.                                             *)
(***************************************************************************)
\* the end of FP2.sqrt: a = sqrt(w2), b = b / (2a)
FP2_sqrt_end(x_, w2_) ==
    Val({<<r, FP_mul(x[2], FP_inverse(FP_add(r, r)))>> : x \in {x_}, r \in {FP_sqrt(w2_)}})

FP2_sqrt(x_) ==
    Val({(
    IF FP2_iszilch(x) THEN [ok |-> TRUE, x |-> x]
    ELSE Val({(
         IF FP_jacobi(n) # 1 THEN [ok |-> FALSE, x |-> FP2_zero]
         ELSE Val({(
              IF FP_jacobi(FP_div2(FP_add(x[1], w1))) = 1
              THEN [ok |-> TRUE, x |-> FP2_sqrt_end(x, FP_div2(FP_add(x[1], w1)))]
              ELSE IF FP_jacobi(FP_div2(FP_sub(x[1], w1))) = 1
              THEN [ok |-> TRUE, x |-> FP2_sqrt_end(x, FP_div2(FP_sub(x[1], w1)))]
              ELSE [ok |-> FALSE, x |-> FP2_zero]
              ) : w1 \in {FP_sqrt(n)}})
         ) : n \in {FP_add(FP_sqr(x[2]), FP_sqr(x[1]))}})
    ) : x \in {x_}})

FP4_iszilch(x_) == Val({FP2_iszilch(x[1]) /\ FP2_iszilch(x[2]) : x \in {x_}})

\* FP4.sqrt with b = 0: wt is the copy of a that wt.sqrt() has changed
FP4_sqrt_real(x_) ==
    Val({(
    IF wt.ok THEN [ok |-> TRUE, x |-> <<wt.x, FP2_zero>>]
    ELSE [ok |-> TRUE, x |-> <<FP2_zero, FP2_sqrt(FP2_div_ip(wt.x)).x>>]
    ) : wt \in {FP2_sqrt(x_[1])}})

\* the end of FP4.sqrt: a = wa, b = b / (2 wa)
FP4_sqrt_end(x_, wa_) ==
    Val({[ok |-> TRUE, x |-> <<wa, FP2_mul(x[2], FP2_inverse(FP2_add(wa, wa)))>>]
         : x \in {x_}, wa \in {wa_}})

FP4_sqrt(x_) ==
    Val({(
    IF FP4_iszilch(x) THEN [ok |-> TRUE, x |-> x]
    ELSE IF FP2_iszilch(x[2]) THEN FP4_sqrt_real(x)
    ELSE Val({(
         IF ~ws.ok THEN [ok |-> FALSE, x |-> x]
         ELSE Val({(
              IF wa.ok THEN FP4_sqrt_end(x, wa.x)
              ELSE Val({(
                   IF wb.ok THEN FP4_sqrt_end(x, wb.x) ELSE [ok |-> FALSE, x |-> x]
                   ) : wb \in {FP2_sqrt(FP2_div2(FP2_sub(x[1], ws.x)))}})
              ) : wa \in {FP2_sqrt(FP2_div2(FP2_add(x[1], ws.x)))}})
         ) : ws \in {FP2_sqrt(FP2_sub(FP2_sqr(x[1]), FP2_mul_ip(FP2_sqr(x[2]))))}})
    ) : x \in {x_}})

\* the reference side: n is a square of the integers mod p; x is a square of
\* FP2 exactly when its norm a^2 + b^2 is one, x of FP4 exactly when its norm
\* a^2 - (1+i) b^2 is a square of FP2
Ref_isSquare(n) == \E r \in 0 .. (Modulus - 1) : (r * r) % Modulus = n % Modulus

Ref_isSquare2(x) == Ref_isSquare(x[1] * x[1] + x[2] * x[2])

Ref_isSquare4(x) ==
    Ref_isSquare2(Ref2_sub(Ref2_mul(x[1], x[1]), Ref2_mul(<<1, 1>>, Ref2_mul(x[2], x[2]))))

MaxRoot == 3

InitSqrt ==
    /\ pc = "start"
    /\ in \in [field : {"FP2"}, x : (0 .. MaxRoot) \X (0 .. MaxRoot)]
           \cup [field : {"FP4"},
                 x : ((0 .. MaxRoot) \X (0 .. MaxRoot)) \X ((0 .. MaxRoot) \X (0 .. MaxRoot))]
    /\ out = <<>>
    /\ bnx = CURVE_Bnx

SqrtFP2 ==
    /\ pc = "start"
    /\ in.field = "FP2"
    /\ pc' = "done"
    /\ out' = [r |-> FP2_sqrt(in.x), sq |-> FP2_sqr(FP2_sqrt(in.x).x), zero |-> FP2_zero]
    /\ UNCHANGED <<in, bnx>>

SqrtFP4 ==
    /\ pc = "start"
    /\ in.field = "FP4"
    /\ pc' = "done"
    /\ out' = [r |-> FP4_sqrt(in.x), sq |-> FP4_sqr(FP4_sqrt(in.x).x), zero |-> FP4_zero]
    /\ UNCHANGED <<in, bnx>>

NextSqrt == SqrtFP2 \/ SqrtFP4

SpecSqrt == InitSqrt /\ [][NextSqrt]_vars

\* C12: whenever FP2.sqrt or FP4.sqrt returns true, the square of the
\* receiver's new value is the receiver's original value
C12_SqrtSound == (pc = "done" /\ out.r.ok) => out.sq = in.x

\* C13: when the argument is not a square of its field, FP2.sqrt and FP4.sqrt
\* return false and leave the receiver zero
C13_SqrtFail ==
    (pc = "done" /\ ~(IF in.field = "FP2" THEN Ref_isSquare2(in.x) ELSE Ref_isSquare4(in.x)))
        => (~out.r.ok /\ out.r.x = out.zero)

(***************************************************************************)
(* Specification SpecPow: x.pow(e) for the unitary elements x that the easy *)
(* part of the final exponentiation makes of the FP12 elements y            *)
(***************************************************************************)
MaxSeed == 2

MaxExp == 20

\* the FP12 elements y, all invertible and none of a proper subfield
PowSeeds ==
    {[a |-> <<<<s, 1>>, <<t, 0>>>>, b |-> <<<<0, 1>>, <<1, 0>>>>, c |-> <<<<1, 0>>, <<0, 0>>>>,
      stype |-> FP_DENSE] : s \in 0 .. MaxSeed, t \in 1 .. MaxSeed}

\* y^((p^6 - 1)(p^2 + 1)), as PAIR.fexp computes it
PAIR_fexp_unitary(y) == Run("PAIR_fexp", [r |-> FP12_new(y)], 1, 8).r

InitPow ==
    /\ pc = "start"
    /\ in \in [y : PowSeeds, e : 0 .. MaxExp]
    /\ out = <<>>
    /\ bnx = CURVE_Bnx

PowElement ==
    /\ pc = "start"
    /\ pc' = "x"
    /\ out' = [x |-> PAIR_fexp_unitary(in.y)]
    /\ UNCHANGED <<in, bnx>>

\* w = x.pow(e); sf is the copy of x that the loop conjugates and restores
PowRun ==
    /\ pc = "x"
    /\ pc' = "done"
    /\ out' = [w |-> FP12_pow(out.x, in.e),
               sf |-> Run("FP12_pow", [x |-> out.x, e |-> in.e], 1, 6).sf] @@ out
    /\ UNCHANGED <<in, bnx>>

NextPow == PowElement \/ PowRun

SpecPow == InitPow /\ [][NextPow]_vars

\* C14: for every unitary x and every e >= 0, e = 0 and e = 1 included,
\* x.pow(e) is x^e (pow(0) is 1), and the copy of x the loop works with ends
\* as x
C14_Pow ==
    pc = "done" =>
        /\ FP12_equals(out.w, GT_power(out.x, in.e))
        /\ FP12_equals(out.sf, out.x)

(***************************************************************************)
(* BIG and byte arrays, on limbs.  << of the source is a multiplication     *)
(* here: no limb of these conversions reaches 2^31.                          *)
(***************************************************************************)
\* norm: the carries go up, the top limb keeps what is left
RECURSIVE BIG_w_norm_loop(_, _, _)
BIG_w_norm_loop(a_, i_, carry_) ==
    Val({(
    IF i >= BIG_NLEN THEN [a EXCEPT ![BIG_NLEN] = a[BIG_NLEN] + carry]
    ELSE BIG_w_norm_loop([a EXCEPT ![i] = (a[i] + carry) % (BIG_BMASK + 1)], i + 1,
                         (a[i] + carry) \div (BIG_BMASK + 1))
    ) : a \in {a_}, i \in {i_}, carry \in {carry_}})

\* norm that masks the last limb as it masks the others
BIG_w_norm_mask(a) == [i \in 1 .. BIG_NLEN |-> BIG_w_norm_loop(a, 1, 0)[i] % (BIG_BMASK + 1)]

BIG_w_norm(a) == BIG_w_norm_loop(a, 1, 0)

BIG_w_fshr_high(a_, k_) == Val({[i \in 1 .. BIG_NLEN |-> a[i] \div (2 ^ k)] : a \in {a_}, k \in {k_}})

BIG_w_fshr(a_, k_) ==
    Val({[i \in 1 .. BIG_NLEN |->
             IF i < BIG_NLEN
             THEN BIG_or(a[i] \div (2 ^ k), (a[i + 1] * (2 ^ (BIG_BASEBITS - k))) % (BIG_BMASK + 1))
             ELSE a[i] \div (2 ^ k)]
         : a \in {a_}, k \in {k_}})

BIG_w_fshl(a_, k_) ==
    Val({[i \in 1 .. BIG_NLEN |->
             IF i = BIG_NLEN
             THEN BIG_or(a[i] * (2 ^ k), a[i - 1] \div (2 ^ (BIG_BASEBITS - k)))
             ELSE IF i > 1
             THEN BIG_or((a[i] * (2 ^ k)) % (BIG_BMASK + 1), a[i - 1] \div (2 ^ (BIG_BASEBITS - k)))
             ELSE (a[i] * (2 ^ k)) % (BIG_BMASK + 1)]
         : a \in {a_}, k \in {k_}})

\* for (i = 0; i < MODBYTES; i++) { m.fshl(8); m.w[0] += b[i + n] & 0xff; }
RECURSIVE BIG_w_frombytearray_loop(_, _, _, _)
BIG_w_frombytearray_loop(m_, b_, n_, i_) ==
    Val({(
    IF i >= MODBYTES THEN m
    ELSE BIG_w_frombytearray_loop(
             Val({[s EXCEPT ![1] = s[1] + ByteAt(b, i + n + 1)] : s \in {BIG_w_fshl(m, 8)}}),
             b, n, i + 1)
    ) : m \in {m_}, b \in {b_}, n \in {n_}, i \in {i_}})

BIG_w_frombytearray(b, n) == BIG_w_frombytearray_loop([i \in 1 .. BIG_NLEN |-> 0], b, n, 0)

\* for (i = MODBYTES - 1; i >= 0; i--) { b[i + n] = c.w[0] & 0xff; c.fshr(8); }
RECURSIVE BIG_w_tobytearray_loop(_, _, _)
BIG_w_tobytearray_loop(c_, b_, i_) ==
    Val({(
    IF i < 0 THEN b
    ELSE BIG_w_tobytearray_loop(BIG_w_fshr(c, 8), [b EXCEPT ![i + 1] = c[1] % 256], i - 1)
    ) : c \in {c_}, b \in {b_}, i \in {i_}})

BIG_w_tobytearray(a) ==
    BIG_w_tobytearray_loop(BIG_w_norm(a), [i \in 1 .. MODBYTES |-> 0], MODBYTES - 1)

(***************************************************************************)
(* Specification SpecBig: bytes -> BIG -> bytes and BIG -> bytes -> BIG     *)
(***************************************************************************)
ByteStep == 51

LimbStep == 273

Bytes == {k * ByteStep : k \in 0 .. (255 \div ByteStep)} \cup {255}

\* the normalised BIGs below 2^(8 * MODBYTES)
Bigs ==
    {v \in [1 .. BIG_NLEN -> {k * LimbStep : k \in 0 .. (BIG_BMASK \div LimbStep)}
                                 \cup {1, 2 ^ (8 * MODBYTES - BIG_BASEBITS * (BIG_NLEN - 1)) - 1, BIG_BMASK}] :
        v[BIG_NLEN] < 2 ^ (8 * MODBYTES - BIG_BASEBITS * (BIG_NLEN - 1))}

\* the big-endian integer of a byte array
Ref_bigEndian(b) == BIG_sigma([i \in 1 .. Len(b) |-> b[i] * (256 ^ (Len(b) - i))], 1, Len(b))

InitBig ==
    /\ pc = "start"
    /\ in \in [from : {"bytes"}, b : [1 .. MODBYTES -> Bytes]] \cup [from : {"big"}, v : Bigs]
    /\ out = <<>>
    /\ bnx = CURVE_Bnx

BigFromBytes ==
    /\ \/ pc = "start" /\ in.from = "bytes" /\ pc' = "mid"
          /\ out' = [m |-> BIG_w_frombytearray(in.b, 0)]
       \/ pc = "mid" /\ in.from = "big" /\ pc' = "done"
          /\ out' = [m |-> BIG_w_frombytearray(out.b, 0)] @@ out
    /\ UNCHANGED <<in, bnx>>

BigToBytes ==
    /\ \/ pc = "start" /\ in.from = "big" /\ pc' = "mid"
          /\ out' = [b |-> BIG_w_tobytearray(in.v)]
       \/ pc = "mid" /\ in.from = "bytes" /\ pc' = "done"
          /\ out' = [b |-> BIG_w_tobytearray(out.m)] @@ out
    /\ UNCHANGED <<in, bnx>>

NextBig == BigFromBytes \/ BigToBytes

SpecBig == InitBig /\ [][NextBig]_vars

\* C15: fromBytes(b) is a normalised BIG whose value is the big-endian
\* integer of b, and toBytes of it is b again; for a normalised BIG v that
\* fits the bytes, fromBytes(toBytes(v)) has the limbs of v
C15_BigBytes ==
    pc = "done" =>
        IF in.from = "bytes"
        THEN /\ \A i \in 1 .. BIG_NLEN : out.m[i] \in 0 .. BIG_BMASK
             /\ Ref_value(out.m) = Ref_bigEndian(in.b)
             /\ out.b = in.b
        ELSE out.m = in.v

C15_Witness ==
    /\ pc = "done"
    /\ in.from = "bytes"
    /\ in.b[1] >= 128 /\ in.b[MODBYTES] % 2 = 1
    /\ out.m[BIG_NLEN] > 0
    /\ out.b = in.b

\* the other direction: a BIG with bits in both limbs, through its bytes
C15_WitnessBig ==
    /\ pc = "done"
    /\ in.from = "big"
    /\ in.v[BIG_NLEN] > 0 /\ in.v[1] > 255
    /\ out.m = in.v

(***************************************************************************)
(* XTR.  The local variables of FP4.xtr_pow2 are the record S: the scalars  *)
(* d, e, the count f2 and the FP4 values cu, cv, cumv, cum2v.               *)
(***************************************************************************)
\* x.xtr_A(w, y, z): x = (w - y) * x.a + i (w + y) * x.b + z
FP4_xtr_A(x_, w_, y_, z_) ==
    Val({FP4_add(FP4_add(FP4_pmul(FP4_sub(w, y), x[1]),
                         FP4_times_i(FP4_pmul(FP4_add(w, y), x[2]))), z)
         : x \in {x_}, w \in {w_}, y \in {y_}, z \in {z_}})

\* x.xtr_D(): x = x^2 - 2 conj(x)
FP4_xtr_D(x_) == Val({FP4_sub(FP4_sqr(x), FP4_add(FP4_conj(x), FP4_conj(x))) : x \in {x_}})

\* one pass of the loop of FP4.xtr_pow: the registers a, b, c for the bit bt of v
FP4_xtr_pow_iter(R_, sf_, bt_) ==
    Val({(
    IF bt # 1
    THEN [a |-> FP4_xtr_D(R.a),
          b |-> FP4_xtr_A(R.b, R.a, FP4_conj(sf), FP4_conj(R.c)),
          c |-> FP4_xtr_D(R.b)]
    ELSE [a |-> FP4_xtr_D(R.b),
          b |-> FP4_xtr_A(R.b, R.c, sf, FP4_conj(R.a)),
          c |-> FP4_xtr_D(R.c)]
    ) : R \in {R_}, sf \in {sf_}, bt \in {bt_}})

\* for (i = nb - 1; i >= 0; i--)
RECURSIVE FP4_xtr_pow_loop(_, _, _, _)
FP4_xtr_pow_loop(R_, sf_, v_, i_) ==
    Val({IF i < 0 THEN R ELSE FP4_xtr_pow_loop(FP4_xtr_pow_iter(R, sf_, BIG_bit(v_, i)), sf_, v_, i - 1)
         : R \in {R_}, i \in {i_}})

FP4_xtr_pow(x_, n_) ==
    Val({(
    IF BIG_parity(n) = 0 THEN R.c ELSE R.b
    ) : n \in {n_},
        R \in {Val({FP4_xtr_pow_loop([a |-> <<<<3, 0>>, <<0, 0>>>>, b |-> x_, c |-> FP4_xtr_D(x_)],
                                     x_, v, BIG_nbits(v) - 1)
                    : v \in {IF BIG_parity(n_) = 0 THEN (n_ \div 2) - 1 ELSE n_ \div 2}})}})

\* the body of "if (BIG.comp(d, e) > 0)" of FP4.xtr_pow2
FP4_xtr_pow2_gt(S_) ==
    Val({(
    IF S.d <= 4 * S.e
    THEN [S EXCEPT !.d = S.e, !.e = S.d - S.e,
                   !.cum2v = FP4_conj(S.cumv), !.cumv = S.cv, !.cv = S.cu,
                   !.cu = FP4_xtr_A(S.cv, S.cu, S.cumv, S.cum2v)]
    ELSE IF BIG_parity(S.d) = 0
    THEN [S EXCEPT !.d = S.d \div 2,
                   !.cum2v = FP4_xtr_D(S.cumv),
                   !.cumv = FP4_xtr_A(S.cumv, S.cu, S.cv, FP4_conj(S.cum2v)),
                   !.cu = FP4_xtr_D(S.cu)]
    ELSE IF BIG_parity(S.e) = 1
    THEN [S EXCEPT !.d = (S.d - S.e) \div 2,
                   !.cu = FP4_xtr_D(S.cu),
                   !.cum2v = FP4_conj(FP4_xtr_D(S.cv)),
                   !.cv = FP4_xtr_A(S.cv, S.cu, S.cumv, S.cum2v)]
    ELSE [S EXCEPT !.d = S.e \div 2, !.e = S.d,
                   !.cumv = FP4_conj(S.cum2v),
                   !.cum2v = FP4_conj(FP4_xtr_D(S.cumv)),
                   !.cv = S.cu,
                   !.cu = FP4_xtr_D(S.cv)]
    ) : S \in {S_}})

\* the body of "if (BIG.comp(d, e) < 0)" of FP4.xtr_pow2
FP4_xtr_pow2_lt(S_) ==
    Val({(
    IF S.e <= 4 * S.d
    THEN [S EXCEPT !.e = S.e - S.d,
                   !.cum2v = S.cumv, !.cumv = S.cu,
                   !.cu = FP4_xtr_A(S.cv, S.cu, S.cumv, S.cum2v)]
    ELSE IF BIG_parity(S.e) = 0
    THEN [S EXCEPT !.d = S.e \div 2, !.e = S.d,
                   !.cumv = FP4_conj(S.cum2v),
                   !.cum2v = FP4_conj(FP4_xtr_D(S.cumv)),
                   !.cv = S.cu,
                   !.cu = FP4_xtr_D(S.cv)]
    ELSE IF BIG_parity(S.d) = 1
    THEN [S EXCEPT !.d = (S.e - S.d) \div 2, !.e = S.d,
                   !.cumv = FP4_conj(S.cumv),
                   !.cum2v = FP4_conj(FP4_xtr_D(S.cu)),
                   !.cu = FP4_xtr_D(S.cv),
                   !.cv = FP4_xtr_A(S.cv, S.cu, S.cumv, S.cum2v)]
    ELSE [S EXCEPT !.d = S.d \div 2,
                   !.cum2v = FP4_xtr_D(S.cumv),
                   !.cumv = FP4_xtr_A(S.cumv, S.cu, S.cv, FP4_conj(S.cum2v)),
                   !.cu = FP4_xtr_D(S.cu)]
    ) : S \in {S_}})

\* one pass of "while (BIG.comp(d, e) !== 0)": the first if, then the second
\* on what the first has left
FP4_xtr_pow2_body(S_) ==
    Val({IF T.d < T.e THEN FP4_xtr_pow2_lt(T) ELSE T
         : T \in {IF S_.d > S_.e THEN FP4_xtr_pow2_gt(S_) ELSE S_}})

\* r.copy(cv); r.xtr_A(cu, cumv, cum2v); f2 times r.xtr_D()
RECURSIVE FP4_xtr_pow2_r(_, _)
FP4_xtr_pow2_r(S_, i_) ==
    Val({IF i = 0 THEN FP4_xtr_A(S.cv, S.cu, S.cumv, S.cum2v) ELSE FP4_xtr_D(FP4_xtr_pow2_r(S, i - 1))
         : S \in {S_}, i \in {i_}})

(***************************************************************************)
(* Specification SpecXtr: this.xtr_pow2(ck, ckml, ckm2l, a, b), one loop    *)
(* pass per step.  r is declared with const, and the last statement of the  *)
(* function before its return assigns to r.                                 *)
(***************************************************************************)
MaxXtr == 5

\* passes of a loop that the model follows
MaxPass == 6

XtrTraces ==
    {[ck |-> <<<<3, s>>, <<1, 2>>>>, ckml |-> <<<<1, 1>>, <<s, 4>>>>,
      ckm2l |-> <<<<2, 0>>, <<5, 1>>>>, this |-> <<<<4, 7>>, <<s, 1>>>>] : s \in 0 .. 1}

InitXtr ==
    /\ pc = "start"
    /\ in \in [t : XtrTraces, a : 0 .. MaxXtr, b : 0 .. MaxXtr]
    /\ out = <<>>
    /\ bnx = CURVE_Bnx

\* the declarations: e = a, d = b, cu = ck, cv = this, cumv = ckml, cum2v = ckm2l
XtrEnter ==
    /\ pc = "start"
    /\ pc' = "halve"
    /\ out' = [e |-> in.a, d |-> in.b, f2 |-> 0, n |-> 0,
               cu |-> in.t.ck, cv |-> in.t.this, cumv |-> in.t.ckml, cum2v |-> in.t.ckm2l]
    /\ UNCHANGED <<in, bnx>>

\* while (d.parity() === 0 && e.parity() === 0) { d.fshr(1); e.fshr(1); f2++; }
XtrHalve ==
    /\ pc = "halve"
    /\ IF BIG_parity(out.d) = 0 /\ BIG_parity(out.e) = 0
       THEN /\ out.f2 < MaxPass
            /\ out' = [out EXCEPT !.d = out.d \div 2, !.e = out.e \div 2, !.f2 = out.f2 + 1]
            /\ pc' = "halve"
       ELSE /\ out' = out
            /\ pc' = "loop"
    /\ UNCHANGED <<in, bnx>>

\* one pass of while (BIG.comp(d, e) !== 0)
XtrPass ==
    /\ pc = "loop"
    /\ out.d # out.e
    /\ out.n < MaxPass
    /\ out' = [FP4_xtr_pow2_body(out) EXCEPT !.n = out.n + 1]
    /\ pc' = "loop"
    /\ UNCHANGED <<in, bnx>>

\* after the loop: r = A(cv; cu, cumv, cum2v), f2 doublings, then
\* "r = r.xtr_pow(d)": the call returns, the assignment to the const r throws
\* a TypeError and the return statement is not reached
XtrLeave ==
    /\ pc = "loop"
    /\ out.d = out.e
    /\ pc' = "done"
    /\ out' = [r |-> FP4_xtr_pow2_r(out, out.f2),
               rhs |-> FP4_xtr_pow(FP4_xtr_pow2_r(out, out.f2), out.d),
               threw |-> "TypeError", returned |-> "nothing"] @@ out
    /\ UNCHANGED <<in, bnx>>

NextXtr == XtrEnter \/ XtrHalve \/ XtrPass \/ XtrLeave

SpecXtr == InitXtr /\ [][NextXtr]_vars

\* C16: FP4.xtr_pow2 raises no exception and returns an FP4, for all inputs
C16_NoThrow == pc = "done" => (out.threw = "none" /\ out.returned = "FP4")

(***************************************************************************)
(* FP.reduce on limbs                                                       *)
(***************************************************************************)
\* FP.logb2(v): the bits of the 32-bit word v below its highest set bit are
\* set and the set bits counted, which is the bit length of v; the word of a
\* negative v has bit 31 set
FP_logb2(v) == IF v < 0 THEN BIG_CHUNK ELSE BIG_nbits(v)

FP_quo_zero(n_, m_) == 0

\* FP.quo(n, m): the top hb = CHUNK / 2 bits of the modulus, and n cut at the
\* same place
FP_quo(n_, m_) ==
    Val({(
    IF FP_TBITS < hb
    THEN BIG_or(n[BIG_NLEN] * (2 ^ (hb - FP_TBITS)),
                n[BIG_NLEN - 1] \div (2 ^ (BIG_BASEBITS - (hb - FP_TBITS))))
         \div (BIG_or(m[BIG_NLEN] * (2 ^ (hb - FP_TBITS)),
                      m[BIG_NLEN - 1] \div (2 ^ (BIG_BASEBITS - (hb - FP_TBITS)))) + 1)
    ELSE n[BIG_NLEN] \div (m[BIG_NLEN] + 1)
    ) : n \in {n_}, m \in {m_}, hb \in {BIG_CHUNK \div 2}})

\* BIG.pmul(c) with BIG.muladd: the limbs of this * c and the carry returned
RECURSIVE BIG_w_pmul_loop(_, _, _, _)
BIG_w_pmul_loop(a_, c_, i_, carry_) ==
    Val({(
    IF i > BIG_NLEN THEN [w |-> a, carry |-> carry]
    ELSE BIG_w_pmul_loop([a EXCEPT ![i] = (a[i] * c + carry) % (BIG_BMASK + 1)], c, i + 1,
                         (a[i] * c + carry) \div (BIG_BMASK + 1))
    ) : a \in {a_}, c \in {c_}, i \in {i_}, carry \in {carry_}})

BIG_w_pmul(a, c) == BIG_w_pmul_loop(a, c, 1, 0)

BIG_w_sub(a_, b_) == Val({[i \in 1 .. BIG_NLEN |-> a[i] - b[i]] : a \in {a_}, b \in {b_}})

\* this.cmove(b, d) for d of {0, 1}: the mask ~(d - 1) is all ones or zero
BIG_w_cmove(a, b, d) == IF d = 1 THEN b ELSE a

\* BIG.ssn(r, a, m): m is shifted right by one bit, r = a - m with the
\* carries of norm; the value returned is the sign bit of the top limb of r
BIG_w_ssn(a_, m_) ==
    Val({[m |-> m1, r |-> r, sr |-> IF r[BIG_NLEN] < 0 THEN 1 ELSE 0]
         : m1 \in {BIG_w_fshr(m_, 1)}, r \in {BIG_w_norm(BIG_w_sub(a_, BIG_w_fshr(m_, 1)))}})

\* while (sb > 0) { sr = BIG.ssn(r, f, m); f.cmove(r, 1 - sr); sb--; }
RECURSIVE FP_w_reduce_loop(_, _, _)
FP_w_reduce_loop(f_, m_, sb_) ==
    Val({(
    IF sb <= 0 THEN f
    ELSE Val({FP_w_reduce_loop(BIG_w_cmove(f, S.r, 1 - S.sr), S.m, sb - 1) : S \in {BIG_w_ssn(f, m_)}})
    ) : f \in {f_}, sb \in {sb_}})

\* the branch XES > 16 of FP.reduce: f = norm(f - q * Modulus)
FP_w_reduce_quo(f_) ==
    Val({BIG_w_norm(BIG_w_sub(f_, [R.w EXCEPT ![BIG_NLEN] = R.w[BIG_NLEN] + R.carry * (BIG_BMASK + 1)]))
         : R \in {BIG_w_pmul(ROM_Modulus, FP_quo(f_, ROM_Modulus))}})

FP_w_reduce(x_) ==
    Val({(
    IF x.XES > 16
    THEN [f |-> FP_w_reduce_loop(FP_w_reduce_quo(f), BIG_w_fshl(ROM_Modulus, 2), 2), XES |-> 1]
    ELSE [f |-> FP_w_reduce_loop(f, BIG_w_fshl(ROM_Modulus, FP_logb2(x.XES - 1)), FP_logb2(x.XES - 1)),
          XES |-> 1]
    ) : x \in {x_}, f \in {BIG_w_norm(x_.f)}})

(***************************************************************************)
(* Specification SpecReduce: reduce() of an FP with 0 <= f < XES * p        *)
(***************************************************************************)
\* the excesses: around the two ends and the switch of paths at 16
Excesses == {1, 2, 3, 4, 5, 8, 9, 15, 16, 17, 18, 31, 32, 33, 100, 511, 512, 1022, FP_FEXCESS}

MaxEdge == 2

\* f = q * p + r with q < XES: q and r at both ends and in the middle
ReduceInputsOf(X) ==
    {[XES |-> X, q |-> q, r |-> r, c |-> c] :
        q \in {q \in (0 .. MaxEdge) \cup {X \div 2} \cup ((X - 1 - MaxEdge) .. (X - 1)) : q >= 0 /\ q < X},
        r \in (0 .. MaxEdge) \cup {Ref_value(ROM_Modulus) \div 2}
              \cup ((Ref_value(ROM_Modulus) - 1 - MaxEdge) .. (Ref_value(ROM_Modulus) - 1)),
        c \in {0, 1}}

ReduceInputs == UNION {ReduceInputsOf(X) : X \in Excesses}

InitReduce ==
    /\ pc = "start"
    /\ in \in ReduceInputs
    /\ out = <<>>
    /\ bnx = CURVE_Bnx

\* the FP: the limbs of f, normalised (c = 0) or with one carry left in the
\* bottom limb (c = 1), as additions leave them
ReduceOperand ==
    /\ pc = "start"
    /\ pc' = "fp"
    /\ out' = [x |-> [f |-> Val({IF in.c = 1 /\ w[BIG_NLEN] > 0
                                 THEN [w EXCEPT ![1] = w[1] + BIG_BMASK + 1, ![2] = w[2] - 1]
                                 ELSE w
                                 : w \in {Ref_limbs(in.q * Ref_value(ROM_Modulus) + in.r)}}),
                      XES |-> in.XES]]
    /\ UNCHANGED <<in, bnx>>

ReduceRun ==
    /\ pc = "fp"
    /\ pc' = "done"
    /\ out' = [y |-> FP_w_reduce(out.x)] @@ out
    /\ UNCHANGED <<in, bnx>>

NextReduce == ReduceOperand \/ ReduceRun

SpecReduce == InitReduce /\ [][NextReduce]_vars

\* C18: for 0 <= f < XES * p and 1 <= XES <= FEXCESS, reduce() leaves f in
\* [0, p), congruent to the old f mod p, and XES = 1, on both paths
C18_Reduce ==
    pc = "done" =>
        /\ Ref_value(out.y.f) \in 0 .. (Ref_value(ROM_Modulus) - 1)
        /\ Ref_value(out.y.f) = in.r
        /\ \A i \in 1 .. BIG_NLEN : out.y.f[i] \in 0 .. BIG_BMASK
        /\ out.y.XES = 1

\* the path of the quotient estimate, with a quotient to estimate
C18_Witness ==
    /\ pc = "done"
    /\ in.XES > 16 /\ in.q >= 16 /\ in.c = 1
    /\ FP_quo(BIG_w_norm(out.x.f), ROM_Modulus) >= 15
    /\ Ref_value(out.y.f) = in.r

\* the path of the conditional subtractions of shifted moduli
C18_WitnessShift ==
    /\ pc = "done"
    /\ in.XES = 16 /\ in.q = 15
    /\ Ref_value(out.y.f) = in.r

(***************************************************************************)
(* The excess XES of an FP.  No statement that writes XES reads f, except   *)
(* the test for zero of the constructor: the operators below are the        *)
(* statements on XES of each FP method, on the values of XES alone; the     *)
(* value an operator returns is the XES of the receiver after the call.     *)
(***************************************************************************)
\* new FP(x) for a BIG x that is zero or not
FP_XES_new(iszero) == IF iszero THEN 1 ELSE 2

\* 1 << sb of JavaScript: the shift count is taken mod 32
FP_XES_shl(sb) == 2 ^ (sb % BIG_CHUNK)

\* add: XES += b.XES, then reduce() when XES > FEXCESS
FP_XES_add(X, Y) == IF X + Y > FP_FEXCESS THEN 1 ELSE X + Y

\* neg: sb = logb2(XES - 1), XES = (1 << sb) + 1, then reduce() when XES > FEXCESS
FP_XES_neg(X) ==
    IF FP_XES_shl(FP_logb2(X - 1)) + 1 > FP_FEXCESS THEN 1 ELSE FP_XES_shl(FP_logb2(X - 1)) + 1

\* sub: n = new FP(b).neg(); this.add(n)
FP_XES_sub(X, Y) == FP_XES_add(X, FP_XES_neg(Y))

\* rsub: n = new FP(this).neg(); this.copy(b).add(n)
FP_XES_rsub(X, Y) == FP_XES_add(Y, FP_XES_neg(X))

\* mul and sqr: reduce() when the product of the excesses is above FEXCESS,
\* and XES = 2 after FP.mod in both cases
FP_XES_mul(X, Y) == IF X * Y > FP_FEXCESS THEN 2 ELSE 2

\* imul(c): c = |c|; XES *= c when XES * c <= FEXCESS, else mul by new FP(c);
\* neg() after it for a negative c
FP_XES_imul(X_, c_) ==
    Val({(
    IF c_ < 0 THEN FP_XES_neg(X1) ELSE X1
    ) : X1 \in {Val({IF X_ * c <= FP_FEXCESS THEN X_ * c ELSE FP_XES_mul(X_, FP_XES_new(c = 0))
                     : c \in {IF c_ < 0 THEN -c_ ELSE c_}})}})

\* cmove(b, d) for d of {0, 1}: XES ^= (XES ^ b.XES) & ~(d - 1)
FP_XES_cmove(X, Y, d) == IF d = 1 THEN Y ELSE X

(***************************************************************************)
(* Specification SpecXes: two FP objects x and y, and any MaxOps operations *)
(* on them; out.x and out.y are their XES                                   *)
(***************************************************************************)
MaxOps == 3

\* the arguments of imul
ImulArgs == {0, 1, 2, 3, 7, 100, 511, 512, 1023, 1024, -1, -2, -3, -512}

InitXes ==
    /\ pc = "ops"
    /\ in \in [xzero : BOOLEAN, yzero : BOOLEAN]
    /\ out = [x |-> FP_XES_new(in.xzero), y |-> FP_XES_new(in.yzero), n |-> 0]
    /\ bnx = CURVE_Bnx

\* one more operation has left the excesses X (receiver) and Y (argument);
\* swap tells which of x, y was the receiver
XesAfter(X, Y, swap) ==
    /\ pc = "ops"
    /\ out.n < MaxOps
    /\ out' = [x |-> IF swap THEN Y ELSE X, y |-> IF swap THEN X ELSE Y, n |-> out.n + 1]
    /\ UNCHANGED <<pc, in, bnx>>

XesThis(swap) == IF swap THEN out.y ELSE out.x

XesThat(swap) == IF swap THEN out.x ELSE out.y

XesZero == \E w \in BOOLEAN : XesAfter(1, XesThat(w), w)

XesOne == \E w \in BOOLEAN : XesAfter(2, XesThat(w), w)

XesCopy == \E w \in BOOLEAN : XesAfter(XesThat(w), XesThat(w), w)

XesCmove == \E w \in BOOLEAN, d \in {0, 1} : XesAfter(FP_XES_cmove(XesThis(w), XesThat(w), d), XesThat(w), w)

XesCswap ==
    \E w \in BOOLEAN, d \in {0, 1} :
        XesAfter(FP_XES_cmove(XesThis(w), XesThat(w), d), FP_XES_cmove(XesThat(w), XesThis(w), d), w)

XesAdd == \E w \in BOOLEAN : XesAfter(FP_XES_add(XesThis(w), XesThat(w)), XesThat(w), w)

\* x.add(x): the argument is the receiver
XesDouble == \E w \in BOOLEAN : XesAfter(FP_XES_add(XesThis(w), XesThis(w)), XesThat(w), w)

XesSub == \E w \in BOOLEAN : XesAfter(FP_XES_sub(XesThis(w), XesThat(w)), XesThat(w), w)

XesRsub == \E w \in BOOLEAN : XesAfter(FP_XES_rsub(XesThis(w), XesThat(w)), XesThat(w), w)

XesNeg == \E w \in BOOLEAN : XesAfter(FP_XES_neg(XesThis(w)), XesThat(w), w)

XesMul == \E w \in BOOLEAN : XesAfter(FP_XES_mul(XesThis(w), XesThat(w)), XesThat(w), w)

XesSqr == \E w \in BOOLEAN : XesAfter(FP_XES_mul(XesThis(w), XesThis(w)), XesThat(w), w)

XesImul == \E w \in BOOLEAN, c \in ImulArgs : XesAfter(FP_XES_imul(XesThis(w), c), XesThat(w), w)

XesReduce == \E w \in BOOLEAN : XesAfter(1, XesThat(w), w)

\* FP2.mul of the FP2 (x, y): a.XES = 3, b.XES = 2
XesFP2mul == XesAfter(3, 2, FALSE)

NextXes ==
    \/ XesZero \/ XesOne \/ XesCopy \/ XesCmove \/ XesCswap \/ XesAdd \/ XesDouble \/ XesSub
    \/ XesRsub \/ XesNeg \/ XesMul \/ XesSqr \/ XesImul \/ XesReduce \/ XesFP2mul

SpecXes == InitXes /\ [][NextXes]_vars

\* C17: after any sequence of FP operations, imul by 0 included, every FP
\* has 1 <= XES <= FEXCESS
C17_Excess == pc = "ops" => (out.x \in 1 .. FP_FEXCESS /\ out.y \in 1 .. FP_FEXCESS)

(***************************************************************************)
(* The sparsity tag of FP12: the constructors and the methods that write    *)
(* stype, and a specification that applies them to two FP12 objects         *)
(***************************************************************************)
\* new FP12() and zero()
FP12_zero == [a |-> FP4_zero, b |-> FP4_zero, c |-> FP4_zero, stype |-> FP_ZERO]

\* new FP12(d) for a number d
FP12_number(d) ==
    [a |-> <<FP2_new(d, 0), FP2_zero>>, b |-> FP4_zero, c |-> FP4_zero,
     stype |-> IF d = 1 THEN FP_ONE ELSE FP_SPARSER]

\* new FP12(d, e, f) for three FP4
FP12_new3(d, e, f) == [a |-> d, b |-> e, c |-> f, stype |-> FP_DENSE]

\* seta(d) for an FP4 d
FP12_seta(d) == [a |-> d, b |-> FP4_zero, c |-> FP4_zero, stype |-> FP_SPARSER]

\* copy(x)
FP12_copy(x) == [a |-> x.a, b |-> x.b, c |-> x.c, stype |-> x.stype]

\* cmove(g, d) for d of {0, 1}: the components and stype move together
\* cmove that moves the components and leaves stype
FP12_cmove_value(x, g, d) == IF d = 1 THEN [a |-> g.a, b |-> g.b, c |-> g.c, stype |-> x.stype] ELSE x

FP12_cmove(x, g, d) == IF d = 1 THEN FP12_copy(g) ELSE x

\* the lines l1, l2 of the generators, sm = l1.smul(l2) and sq = l2.sqr()
Stype_lines == Run("Stype_lines", [n |-> 0], 1, 4)

\* FP4 values with every entry non-zero
Stype_fp4(k) == <<FP2_new(k, k + 1), FP2_new(k + 2, k + 3)>>

\* FP12 objects the library hands out: one of each constructor, and the
\* results of line, smul and sqr on lines
StypeInputs ==
    UNION {{ FP12_zero, FP12_one, FP12_number(0), FP12_number(2), FP12_seta(Stype_fp4(3)),
             FP12_new3(Stype_fp4(1), Stype_fp4(5), Stype_fp4(9)), FP12_new(L.l1.lv),
             L.l1.lv, L.l2.lv, L.sm, L.sq } : L \in {Stype_lines}}

MaxStypeOps == 2

InitStype ==
    /\ pc = "ops"
    /\ in \in UNION {[x : S, y : S] : S \in {StypeInputs}}
    /\ out = [x |-> in.x, x0 |-> in.x, y |-> in.y, op |-> "new", n |-> 0]
    /\ bnx = CURVE_Bnx

\* the operation op has left the receiver as r; x0 keeps the receiver before it
StypeAfter(op, r) ==
    /\ pc = "ops"
    /\ out.n < MaxStypeOps
    /\ out' = [x |-> r, x0 |-> out.x, y |-> out.y, op |-> op, n |-> out.n + 1]
    /\ UNCHANGED <<pc, in, bnx>>

StypeNew == StypeAfter("new", FP12_new(out.y))

StypeOne == StypeAfter("one", FP12_one)

StypeZero == StypeAfter("zero", FP12_zero)

StypeSeta == StypeAfter("seta", FP12_seta(out.y.a))

StypeCopy == StypeAfter("copy", FP12_copy(out.y))

StypeCmove == \E d \in {0, 1} : StypeAfter("cmove", FP12_cmove(out.x, out.y, d))

StypeConj == StypeAfter("conj", FP12_conj(out.x))

StypeSqr == StypeAfter("sqr", Run("Stype_op", [x |-> out.x, y |-> out.y], 1, 1).r)

StypeMul == StypeAfter("mul", Run("Stype_op", [x |-> out.x, y |-> out.y], 2, 2).r)

StypeSmul == StypeAfter("smul", Run("Stype_op", [x |-> out.x, y |-> out.y], 3, 3).r)

StypeSsmul == StypeAfter("ssmul", Run("Stype_op", [x |-> out.x, y |-> out.y], 4, 4).r)

\* norm() and reduce() work on the limbs of the components: the values
\* and stype stay
StypeNorm == StypeAfter("norm", FP12_copy(out.x))

StypeReduce == StypeAfter("reduce", FP12_copy(out.x))

StypeUsqr == StypeAfter("usqr", Run("Stype_op", [x |-> out.x, y |-> out.y], 5, 5).r)

StypeInverse == StypeAfter("inverse", Run("Stype_op", [x |-> out.x, y |-> out.y], 6, 6).r)

StypeFrob == StypeAfter("frob", Run("Stype_op", [x |-> out.x, y |-> out.y], 7, 7).r)

StypeLine ==
    \E l \in UNION {{L.l1.lv, L.l2.lv} : L \in {Stype_lines}} : StypeAfter("line", l)

NextStype ==
    \/ StypeNew \/ StypeOne \/ StypeZero \/ StypeSeta \/ StypeCopy \/ StypeCmove \/ StypeConj
    \/ StypeSqr \/ StypeMul \/ StypeSmul \/ StypeSsmul \/ StypeLine
    \/ StypeNorm \/ StypeReduce \/ StypeUsqr \/ StypeInverse \/ StypeFrob

SpecStype == InitStype /\ [][NextStype]_vars

\* what the code relies on for each tag: ZERO is the value 0, ONE the value
\* (1,0,0), SPARSER has c = 0 and b in Fp2 (the shape of a line), SPARSE has
\* c in Fp2, DENSE is any value
Stype_accurate(x) ==
    /\ x.stype \in {FP_ZERO, FP_ONE, FP_SPARSER, FP_SPARSE, FP_DENSE}
    /\ x.stype = FP_ZERO => (x.a = FP4_zero /\ x.b = FP4_zero /\ x.c = FP4_zero)
    /\ x.stype = FP_ONE => (x.a = FP4_one /\ x.b = FP4_zero /\ x.c = FP4_zero)
    /\ x.stype = FP_SPARSER => (x.b[2] = FP2_zero /\ x.c = FP4_zero)
    /\ x.stype = FP_SPARSE => x.c[2] = FP2_zero

\* the tags as the sentence describes them: SPARSER has nothing but an Fp2
\* part of a, SPARSE has a zero Fp2 entry in a or in b
Stype_described(x) ==
    /\ x.stype = FP_ONE => (x.a = FP4_one /\ x.b = FP4_zero /\ x.c = FP4_zero)
    /\ x.stype = FP_SPARSER => (x.a[2] = FP2_zero /\ x.b = FP4_zero /\ x.c = FP4_zero)
    /\ x.stype = FP_SPARSE => (FP2_zero \in {x.a[1], x.a[2], x.b[1], x.b[2]})

\* C19: every FP12 an operation returns has an stype that describes its value:
\* ZERO is 0, ONE is (1,0,0), SPARSER has c = 0 and the second half of b zero,
\* SPARSE has the second half of c zero
C19_Stype == pc = "ops" => (Stype_accurate(out.x) /\ Stype_accurate(out.y))

\* C19 as stated: SPARSER means that only an Fp2 subfield of a can be non-zero
C19_StypeDescribed == pc = "ops" => (Stype_described(out.x) /\ Stype_described(out.y))

\* PAIR.line has returned a SPARSER value whose b is not zero
C19_Witness ==
    /\ out.op = "line"
    /\ out.x.stype = FP_SPARSER
    /\ out.x.b # FP4_zero
    /\ out.x.a[2] # FP2_zero

\* C20: x.ssmul(y) leaves x with the value of x.mul(y), whatever the tags of x
\* and y; for x ONE the result is y with its stype, for y ONE x is unchanged
C20_Ssmul ==
    (pc = "ops" /\ out.op = "ssmul") =>
        /\ FP12_equals(out.x, FP12_mul(out.x0, out.y))
        /\ out.x0.stype = FP_ONE => out.x = out.y
        /\ (out.y.stype = FP_ONE /\ out.x0.stype # FP_ONE) => out.x = out.x0

\* ssmul has run on a SPARSE x and a SPARSE y with non-zero values
C20_Witness ==
    /\ out.op = "ssmul"
    /\ out.x0.stype = FP_SPARSE
    /\ out.y.stype = FP_SPARSE
    /\ out.x0.c # FP4_zero
    /\ ~FP12_equals(out.x, FP12_zero)

\* the shape ssmul takes for granted in an operand with the tag of x
Stype_relied(x) ==
    CASE x.stype = FP_SPARSE -> x.c[2] = FP2_zero
      [] x.stype = FP_SPARSER -> x.b[2] = FP2_zero /\ FP4_iszilch(x.c)
      [] x.stype = FP_ONE -> FP12_isunity(x)
      [] x.stype = FP_ZERO -> FP4_iszilch(x.a) /\ FP4_iszilch(x.b) /\ FP4_iszilch(x.c)
      [] OTHER -> x.stype = FP_DENSE

\* C21: after any sequence of FP12 operations and lines, SPARSE has c.b = 0,
\* SPARSER has b.b = 0 and c = 0, ONE is 1, ZERO is 0; sqr of a SPARSER
\* element and smul of two SPARSER elements are tagged SPARSE with c.b = 0
C21_Sparsity ==
    pc = "ops" =>
        /\ Stype_relied(out.x)
        /\ Stype_relied(out.y)
        /\ (out.op = "sqr" /\ out.x0.stype = FP_SPARSER) =>
               (out.x.stype = FP_SPARSE /\ out.x.c[2] = FP2_zero)
        /\ (out.op = "smul" /\ out.x0.stype = FP_SPARSER /\ out.y.stype = FP_SPARSER) =>
               (out.x.stype = FP_SPARSE /\ out.x.c[2] = FP2_zero)

\* sqr has run on a line and left c non-zero, in Fp2
C21_Witness ==
    /\ out.op = "sqr"
    /\ out.x0.stype = FP_SPARSER
    /\ out.x0.b # FP4_zero
    /\ out.x.stype = FP_SPARSE
    /\ out.x.c[1] # FP2_zero

(***************************************************************************)
(* PAIR.lbits on limbs: the loop parameter n, n3 = 3n and the digits        *)
(* bt = n3.bit(i) - n.bit(i) of the Miller loop                             *)
(***************************************************************************)
\* inc(i): norm(), then w[0] += i
BIG_w_inc(w_, i_) == Val({[a EXCEPT ![1] = a[1] + i_] : a \in {BIG_w_norm(w_)}})

\* dec(i): norm(), then w[0] -= i
BIG_w_dec(w_, i_) == Val({[a EXCEPT ![1] = a[1] - i_] : a \in {BIG_w_norm(w_)}})

\* the index of the highest non-zero limb, 0 if there is none
RECURSIVE BIG_w_nbits_k(_, _)
BIG_w_nbits_k(t_, k_) ==
    Val({ IF k >= 1 /\ t[k] = 0 THEN BIG_w_nbits_k(t, k - 1) ELSE k : t \in {t_}, k \in {k_} })

\* nbits() of a BIG that is not negative: BASEBITS * k plus the number of
\* halvings that bring the limb k to 0
BIG_w_nbits(w_) ==
    Val({ Val({ IF k < 1 THEN 0 ELSE BIG_BASEBITS * (k - 1) + BIG_nbits(t[k])
                : k \in {BIG_w_nbits_k(t, BIG_NLEN)} })
         : t \in {BIG_w_norm(w_)} })

\* bit(n): (w[floor(n / BASEBITS)] & (1 << (n % BASEBITS))) > 0
BIG_w_bit(w, n) ==
    IF (w[(n \div BIG_BASEBITS) + 1] \div (2 ^ (n % BIG_BASEBITS))) % 2 = 1 THEN 1 ELSE 0

\* PAIR.lbits(n3, n) for the ROM value u of CURVE_Bnx: n, n3 and the value returned
PAIR_w_lbits(u_) ==
    Val({ Val({ [n |-> n, n3 |-> n3, nb |-> BIG_w_nbits(n3)]
                : n3 \in {BIG_w_norm(BIG_w_pmul(n, 3).w)} })
         : n \in {BIG_w_norm(BIG_w_dec(BIG_w_pmul(Ref_limbs(u_), 6).w, 2))} })

MaxLbitsU == 40

\* loop parameters: the small ones, and some for which 6u ends a limb with
\* zeros or fills the second limb
LbitsU == (1 .. MaxLbitsU) \cup {8192, 16384, 2731, 5461, 1000003, 14913080}

InitLbits ==
    /\ pc = "start"
    /\ in \in [u : LbitsU]
    /\ out = <<>>
    /\ bnx = CURVE_Bnx

\* nb = PAIR.lbits(n3, n), and i = nb - 2 of the for loop
LbitsRun ==
    /\ pc = "start"
    /\ pc' = "loop"
    /\ out' = Val({[n |-> l.n, n3 |-> l.n3, nb |-> l.nb, i |-> l.nb - 2, bt |-> 0, digits |-> 0]
                   : l \in {PAIR_w_lbits(in.u)}})
    /\ UNCHANGED <<in, bnx>>

\* one pass of the loop: bt = n3.bit(i) - n.bit(i), i--
LbitsDigit ==
    /\ pc = "loop"
    /\ out.i >= 1
    /\ out' = [out EXCEPT !.bt = BIG_w_bit(out.n3, out.i) - BIG_w_bit(out.n, out.i),
                          !.i = out.i - 1, !.digits = out.digits + 1]
    /\ UNCHANGED <<pc, in, bnx>>

\* the loop has ended
LbitsEnd ==
    /\ pc = "loop"
    /\ out.i < 1
    /\ pc' = "done"
    /\ UNCHANGED <<in, out, bnx>>

NextLbits == LbitsRun \/ LbitsDigit \/ LbitsEnd

SpecLbits == InitLbits /\ [][NextLbits]_vars

\* every limb but the last is in [0, 2^BASEBITS), the last is not negative
Lbits_normalised(w) ==
    /\ \A i \in 1 .. (BIG_NLEN - 1) : w[i] \in 0 .. BIG_BMASK
    /\ w[BIG_NLEN] >= 0

FULL_BASEBITS == 24

FULL_NLEN == 11

\* ROM_CURVE.CURVE_Bnx = [0x1, 0x0, 0x4080, 0x0, ...]
FULL_CURVE_Bnx == <<1, 0, 16512, 0, 0, 0, 0, 0, 0, 0, 0>>

RECURSIVE BIG_full_norm_loop(_, _, _)
BIG_full_norm_loop(a_, i_, carry_) ==
    Val({(
    IF i >= FULL_NLEN THEN [a EXCEPT ![FULL_NLEN] = a[FULL_NLEN] + carry]
    ELSE BIG_full_norm_loop([a EXCEPT ![i] = (a[i] + carry) % (2 ^ FULL_BASEBITS)], i + 1,
                            (a[i] + carry) \div (2 ^ FULL_BASEBITS))
    ) : a \in {a_}, i \in {i_}, carry \in {carry_}})

BIG_full_norm(a) == BIG_full_norm_loop(a, 1, 0)

RECURSIVE BIG_full_pmul_loop(_, _, _, _)
BIG_full_pmul_loop(a_, c_, i_, carry_) ==
    Val({(
    IF i > FULL_NLEN THEN a
    ELSE BIG_full_pmul_loop([a EXCEPT ![i] = (a[i] * c + carry) % (2 ^ FULL_BASEBITS)], c, i + 1,
                            (a[i] * c + carry) \div (2 ^ FULL_BASEBITS))
    ) : a \in {a_}, c \in {c_}, i \in {i_}, carry \in {carry_}})

\* pmul(c): the receiver after the call
BIG_full_pmul(a, c) == BIG_full_pmul_loop(a, c, 1, 0)

BIG_full_dec(w_, i_) == Val({[a EXCEPT ![1] = a[1] - i_] : a \in {BIG_full_norm(w_)}})

RECURSIVE BIG_full_nbits_k(_, _)
BIG_full_nbits_k(t_, k_) ==
    Val({ IF k >= 1 /\ t[k] = 0 THEN BIG_full_nbits_k(t, k - 1) ELSE k : t \in {t_}, k \in {k_} })

BIG_full_nbits(w_) ==
    Val({ Val({ IF k < 1 THEN 0 ELSE FULL_BASEBITS * (k - 1) + BIG_nbits(t[k])
                : k \in {BIG_full_nbits_k(t, FULL_NLEN)} })
         : t \in {BIG_full_norm(w_)} })

\* nbits of n alone
PAIR_full_lbits_n(u_) == BIG_full_nbits(BIG_full_norm(BIG_full_dec(BIG_full_pmul(u_, 6), 2)))

\* the value PAIR.lbits returns for the ROM array u of CURVE_Bnx
PAIR_full_lbits(u_) ==
    BIG_full_nbits(BIG_full_norm(BIG_full_pmul(BIG_full_norm(BIG_full_dec(BIG_full_pmul(u_, 6), 2)), 3)))

\* loop parameters: the ROM value, the value 1 and a value of one more bit
IndexU == {FULL_CURVE_Bnx, [FULL_CURVE_Bnx EXCEPT ![3] = 0], [FULL_CURVE_Bnx EXCEPT ![3] = 2 * @]}

InitIndex ==
    /\ pc = "start"
    /\ in \in [u : IndexU]
    /\ out = <<>>
    /\ bnx = CURVE_Bnx

\* r = PAIR.initmp(): r[0] .. r[ATE_BITS - 1]
IndexInitmp ==
    /\ pc = "start"
    /\ pc' = "initmp"
    /\ out' = [r |-> 0 .. (ATE_BITS - 1), nb |-> 0, i |-> 0, written |-> {}, consumed |-> {}]
    /\ UNCHANGED <<in, bnx>>

\* PAIR.another up to its loop: nb = PAIR.lbits(n3, n), i = nb - 2
IndexLbits ==
    /\ pc = "initmp"
    /\ pc' = "another"
    /\ out' = Val({[out EXCEPT !.nb = nb, !.i = nb - 2] : nb \in {PAIR_full_lbits(in.u)}})
    /\ UNCHANGED <<in, bnx>>

\* one pass of the loop of another: r[i].ssmul(lv), a TypeError when r[i] is undefined
IndexLine ==
    /\ pc = "another"
    /\ out.i >= 1
    /\ pc' = IF out.i \in out.r THEN "another" ELSE "threw"
    /\ out' = IF out.i \in out.r THEN [out EXCEPT !.written = @ \cup {out.i}, !.i = out.i - 1] ELSE out
    /\ UNCHANGED <<in, bnx>>

\* the end of another: r[0].ssmul(lv); then miller starts with i = ATE_BITS - 1
IndexFixup ==
    /\ pc = "another"
    /\ out.i < 1
    /\ pc' = "miller"
    /\ out' = [out EXCEPT !.written = @ \cup {0}, !.i = ATE_BITS - 1]
    /\ UNCHANGED <<in, bnx>>

\* one pass of the loop of miller: res.sqr(); res.ssmul(r[i])
IndexMiller ==
    /\ pc = "miller"
    /\ out.i >= 1
    /\ out' = [out EXCEPT !.consumed = @ \cup {out.i}, !.i = out.i - 1]
    /\ UNCHANGED <<pc, in, bnx>>

\* the end of miller: res.conj(); res.ssmul(r[0])
IndexMillerEnd ==
    /\ pc = "miller"
    /\ out.i < 1
    /\ pc' = "done"
    /\ out' = [out EXCEPT !.consumed = @ \cup {0}]
    /\ UNCHANGED <<in, bnx>>

NextIndex == IndexInitmp \/ IndexLbits \/ IndexLine \/ IndexFixup \/ IndexMiller \/ IndexMillerEnd

SpecIndex == InitIndex /\ [][NextIndex]_vars

\* C23: with the ROM value of CURVE_Bnx, PAIR.lbits returns ATE_BITS + 1,
\* another uses only indices 0 .. ATE_BITS - 1 of the array of initmp (none
\* is undefined), and miller consumes every index another has written
C23_Index ==
    in.u = FULL_CURVE_Bnx =>
        /\ pc # "threw"
        /\ pc \in {"another", "miller", "done"} => out.nb = ATE_BITS + 1
        /\ pc \in {"another", "miller", "done"} => out.written \subseteq out.r
        /\ pc = "done" => (out.written \subseteq out.consumed /\ out.consumed \subseteq out.r)

\* another and miller have ended on the ROM value, and another has written
\* the last index of the array
C23_Witness ==
    /\ pc = "done"
    /\ in.u = FULL_CURVE_Bnx
    /\ (ATE_BITS - 1) \in out.written
    /\ 0 \in out.written
    /\ out.consumed = 0 .. (ATE_BITS - 1)

(***************************************************************************)
(* BIG.norm on limbs that are not normalised                                *)
(***************************************************************************)
\* what norm() returns: the statement is return this
BIG_w_norm_return(a) == [type |-> "BIG", w |-> BIG_w_norm(a)]

MaxCarry == 3

\* limbs with an excess of -1 .. MaxCarry over the base
NormLimbs == {k * (BIG_BMASK + 1) + r : k \in -1 .. MaxCarry, r \in {0, 1, BIG_BMASK}}

InitNorm ==
    /\ pc = "start"
    /\ in \in [w : [1 .. BIG_NLEN -> NormLimbs]]
    /\ out = <<>>
    /\ bnx = CURVE_Bnx

\* r = x.norm(): out.w is x after the call and out.r the value returned
NormRun ==
    /\ pc = "start"
    /\ pc' = "done"
    /\ out' = [w |-> BIG_w_norm(in.w), r |-> BIG_w_norm_return(in.w)]
    /\ UNCHANGED <<in, bnx>>

NextNorm == NormRun

SpecNorm == InitNorm /\ [][NextNorm]_vars

RECURSIVE BIG_w_comp_loop(_, _, _)
BIG_w_comp_loop(a, b, i) ==
    IF i < 1 THEN 0
    ELSE IF a[i] = b[i] THEN BIG_w_comp_loop(a, b, i - 1)
    ELSE IF a[i] > b[i] THEN 1 ELSE -1

BIG_w_comp(a, b) == BIG_w_comp_loop(a, b, BIG_NLEN)

\* do { m.fshl(1); k++; } while (BIG.comp(this, m) >= 0);
RECURSIVE BIG_w_mod_shl(_, _, _)
BIG_w_mod_shl(x_, m_, k_) ==
    Val({(
    IF BIG_w_comp(x, m) >= 0 THEN BIG_w_mod_shl(x, m, k + 1) ELSE [m |-> m, k |-> k + 1]
    ) : x \in {x_}, m \in {BIG_w_fshl(m_, 1)}, k \in {k_}})

\* while (k > 0) { m.fshr(1); r.copy(this); r.sub(m); r.norm();
\*                 this.cmove(r, 1 - sign bit of r); k--; }
RECURSIVE BIG_w_mod_sub(_, _, _)
BIG_w_mod_sub(x_, m_, k_) ==
    Val({(
    IF k <= 0 THEN x
    ELSE Val({BIG_w_mod_sub(BIG_w_cmove(x, S.r, 1 - S.sr), S.m, k - 1) : S \in {BIG_w_ssn(x, m)}})
    ) : x \in {x_}, m \in {m_}, k \in {k_}})

\* this.mod(m1): w is the receiver after the call, k the passes of each of
\* the two loops, early whether the return before the loops was taken
BIG_w_mod(x_, m_) ==
    Val({(
    IF BIG_w_comp(x, m) < 0 THEN [w |-> x, k |-> 0, early |-> TRUE]
    ELSE Val({[w |-> BIG_w_mod_sub(x, S.m, S.k), k |-> S.k, early |-> FALSE]
              : S \in {BIG_w_mod_shl(x, m, 0)}})
    ) : x \in {BIG_w_norm(x_)}, m \in {m_}})

MaxModVal == 12

\* receivers and moduli, of one limb and of two
ModValues == (0 .. MaxModVal) \cup {16383, 16384, 40000}

ModModuli == (1 .. MaxModVal) \cup {16384}

\* two calls side by side: a1.mod(m1) and a2.mod(m2)
InitMod ==
    /\ pc = "start"
    /\ in \in [a1 : ModValues, m1 : ModModuli, a2 : ModValues, m2 : ModModuli]
    /\ out = <<>>
    /\ bnx = CURVE_Bnx

ModRun ==
    /\ pc = "start"
    /\ pc' = "done"
    /\ out' = [r1 |-> BIG_w_mod(Ref_limbs(in.a1), Ref_limbs(in.m1)),
               r2 |-> BIG_w_mod(Ref_limbs(in.a2), Ref_limbs(in.m2))]
    /\ UNCHANGED <<in, bnx>>

NextMod == ModRun

SpecMod == InitMod /\ [][NextMod]_vars

\* the value left by mod is the remainder
Mod_remainder ==
    pc = "done" => /\ Ref_value(out.r1.w) = in.a1 % in.m1
                   /\ Ref_value(out.r2.w) = in.a2 % in.m2

\* C25: no call of mod returns before its loops, and two calls whose
\* receivers have the same bit length and whose moduli have the same bit
\* length run the same number of passes
C25_FixedCount ==
    pc = "done" =>
        /\ ~out.r1.early
        /\ (/\ BIG_w_nbits(Ref_limbs(in.a1)) = BIG_w_nbits(Ref_limbs(in.a2))
            /\ BIG_w_nbits(Ref_limbs(in.m1)) = BIG_w_nbits(Ref_limbs(in.m2)))
           => out.r1.k = out.r2.k

\* the passes differ without any early return, on equal bit lengths
C25_NoEarly ==
    (/\ pc = "done"
     /\ ~out.r1.early /\ ~out.r2.early
     /\ BIG_w_nbits(Ref_limbs(in.a1)) = BIG_w_nbits(Ref_limbs(in.a2))
     /\ BIG_w_nbits(Ref_limbs(in.m1)) = BIG_w_nbits(Ref_limbs(in.m2)))
    => out.r1.k = out.r2.k

(***************************************************************************)
(* BIG.invmodp: its loops, one pass per step                                *)
(***************************************************************************)
BIG_w_add(a_, b_) == Val({[i \in 1 .. BIG_NLEN |-> a[i] + b[i]] : a \in {a_}, b \in {b_}})

BIG_w_parity(a) == a[1] % 2

\* if (x.parity() !== 0) { x.add(p); x.norm(); }  x.fshr(1);
BIG_w_invmodp_halve(x_, p_) ==
    Val({BIG_w_fshr(IF BIG_w_parity(x) # 0 THEN BIG_w_norm(BIG_w_add(x, p)) ELSE x, 1)
         : x \in {x_}, p \in {p_}})

\* if (BIG.comp(x, y) >= 0) { x.sub(y); } else { t.copy(p); t.sub(y); x.add(t); }  x.norm();
BIG_w_invmodp_diff(x_, y_, p_) ==
    Val({BIG_w_norm(IF BIG_w_comp(x, y) >= 0 THEN BIG_w_sub(x, y)
                    ELSE BIG_w_add(x, BIG_w_sub(p, y)))
         : x \in {x_}, y \in {y_}, p \in {p_}})

MaxInvP == 15

MaxInvA == 20

\* odd moduli above 1, prime and composite, of one limb and of two
InvModuli == {p \in 3 .. MaxInvP : p % 2 = 1} \cup {16385, 32771}

InvValues == (0 .. MaxInvA) \cup {16384, 16385, 32771, 40000}

BIG_w_one == [i \in 1 .. BIG_NLEN |-> IF i = 1 THEN 1 ELSE 0]

InitInv ==
    /\ pc = "start"
    /\ in \in [a : InvValues, p : InvModuli]
    /\ out = <<>>
    /\ bnx = CURVE_Bnx

\* this.mod(p); u.copy(this); v.copy(p); x1 = 1; x2 = 0;
InvStart ==
    /\ pc = "start"
    /\ pc' = "outer"
    /\ out' = [u  |-> BIG_w_mod(Ref_limbs(in.a), Ref_limbs(in.p)).w,
               v  |-> Ref_limbs(in.p),
               x1 |-> BIG_w_one,
               x2 |-> Ref_limbs(0)]
    /\ UNCHANGED <<in, bnx>>

\* while (BIG.comp(u, one) !== 0 && BIG.comp(v, one) !== 0)
InvOuter ==
    /\ pc = "outer"
    /\ pc' = IF BIG_w_comp(out.u, BIG_w_one) # 0 /\ BIG_w_comp(out.v, BIG_w_one) # 0
             THEN "halve_u" ELSE "end"
    /\ UNCHANGED <<in, out, bnx>>

\* while (u.parity() === 0) { u.fshr(1); halve x1 modulo p }
InvHalveU ==
    /\ pc = "halve_u"
    /\ IF BIG_w_parity(out.u) = 0
       THEN /\ out' = [out EXCEPT !.u = BIG_w_fshr(out.u, 1),
                                  !.x1 = BIG_w_invmodp_halve(out.x1, Ref_limbs(in.p))]
            /\ pc' = pc
       ELSE /\ pc' = "halve_v"
            /\ out' = out
    /\ UNCHANGED <<in, bnx>>

\* while (v.parity() === 0) { v.fshr(1); halve x2 modulo p }
InvHalveV ==
    /\ pc = "halve_v"
    /\ IF BIG_w_parity(out.v) = 0
       THEN /\ out' = [out EXCEPT !.v = BIG_w_fshr(out.v, 1),
                                  !.x2 = BIG_w_invmodp_halve(out.x2, Ref_limbs(in.p))]
            /\ pc' = pc
       ELSE /\ pc' = "sub"
            /\ out' = out
    /\ UNCHANGED <<in, bnx>>

\* if (BIG.comp(u, v) >= 0) { u -= v; x1 -= x2 } else { v -= u; x2 -= x1 }
InvSub ==
    /\ pc = "sub"
    /\ pc' = "outer"
    /\ out' = IF BIG_w_comp(out.u, out.v) >= 0
              THEN [out EXCEPT !.u = BIG_w_norm(BIG_w_sub(out.u, out.v)),
                               !.x1 = BIG_w_invmodp_diff(out.x1, out.x2, Ref_limbs(in.p))]
              ELSE [out EXCEPT !.v = BIG_w_norm(BIG_w_sub(out.v, out.u)),
                               !.x2 = BIG_w_invmodp_diff(out.x2, out.x1, Ref_limbs(in.p))]
    /\ UNCHANGED <<in, bnx>>

\* if (BIG.comp(u, one) === 0) this.copy(x1); else this.copy(x2);
InvEnd ==
    /\ pc = "end"
    /\ pc' = "done"
    /\ out' = [x |-> IF BIG_w_comp(out.u, BIG_w_one) = 0 THEN out.x1 ELSE out.x2]
    /\ UNCHANGED <<in, bnx>>

NextInv == InvStart \/ InvOuter \/ InvHalveU \/ InvHalveV \/ InvSub \/ InvEnd

\* the call runs on without a pause: a step that can be taken is taken
SpecInv == InitInv /\ [][NextInv]_vars /\ WF_vars(NextInv)

RECURSIVE Inv_gcd(_, _)
Inv_gcd(a, b) == IF b = 0 THEN a ELSE Inv_gcd(b, a % b)

\* for a receiver coprime to p the value left is the inverse, below p
Inv_inverse ==
    (pc = "done" /\ Inv_gcd(in.a, in.p) = 1) =>
        /\ Ref_value(out.x) \in 0 .. (in.p - 1)
        /\ (Ref_value(out.x) * (in.a % in.p)) % in.p = 1

\* a receiver coprime to p: the call ends
Inv_ends == (Inv_gcd(in.a, in.p) = 1) => <>(pc = "done")

\* C26: for every odd modulus p > 1 and every receiver, 0 and the multiples
\* of p included, invmodp(p) ends, and for a receiver coprime to p the value
\* left is its inverse modulo p, in 0 .. p - 1
C26_Terminates ==
    /\ <>(pc = "done")
    /\ [](Inv_inverse)

(***************************************************************************)
(* FP2.sqrt on the squares of FP2 (specification SpecSqrt)                  *)
(***************************************************************************)
\* C27: FP2.sqrt returns true for every element that is a square of FP2,
\* the elements with b = 0 whose a is not a square of Fp included; it
\* returns false only for the elements that are not squares
C27_SqrtComplete ==
    (pc = "done" /\ in.field = "FP2" /\ Ref_isSquare2(in.x)) => out.r.ok

\* the squares with b # 0, and those with b = 0 whose a is a square of Fp,
\* are found
Sqrt_completeElsewhere ==
    (/\ pc = "done" /\ in.field = "FP2" /\ Ref_isSquare2(in.x)
     /\ (in.x[2] # 0 \/ Ref_isSquare(in.x[1])))
    => out.r.ok

(***************************************************************************)
(* The exponent argument of FP.pow, FP2.pow, FP4.pow and FP12.pow: each     *)
(* operator gives the record [r, e] of the power returned and of the        *)
(* caller's BIG e after the call                                            *)
(***************************************************************************)
\* FP.pow works on t = new BIG(e)
FP_pow_call(x, e) == [r |-> FP_pow(x, e), e |-> e]

\* FP2.pow: e.norm(); for (;;) { bt = e.parity(); e.fshr(1); ...
\*          if (e.iszilch()) break; ... }  on the caller's e itself
RECURSIVE FP2_pow_e(_)
FP2_pow_e(e) == IF e \div 2 = 0 THEN e \div 2 ELSE FP2_pow_e(e \div 2)

FP2_pow_call(x, e) == [r |-> FP2_pow(x, e), e |-> FP2_pow_e(e)]

\* FP4.pow works on w = new FP4(this) and z = new BIG(e)
RECURSIVE FP4_pow_loop(_, _, _)
FP4_pow_loop(r_, w_, z_) ==
    Val({(
    IF z \div 2 = 0 THEN r
    ELSE FP4_pow_loop(r, FP4_sqr(w), z \div 2)
    ) : r \in {IF BIG_parity(z_) = 1 THEN FP4_mul(r_, w_) ELSE r_}, w \in {w_}, z \in {z_}})

FP4_pow_call(x, e) == [r |-> FP4_pow_loop(FP4_one, x, e), e |-> e]

\* FP12.pow works on e1 = new BIG(e) and e3 = 3 e1
FP12_pow_call(x, e) == [r |-> FP12_pow(x, e), e |-> Run("FP12_pow", [x |-> x, e |-> e], 1, 6).e]

MaxExpArg == 30

ExpBases ==
    [field : {"FP"}, x : {2, 3}] \cup [field : {"FP2"}, x : {<<2, 1>>, <<0, 3>>}]
    \cup [field : {"FP4"}, x : {<<<<2, 1>>, <<1, 0>>>>, <<<<0, 1>>, <<3, 2>>>>}]
    \cup [field : {"FP12"}, x : {FP12_one}]

InitExp ==
    /\ pc = "start"
    /\ in \in UNION {[b : B, e : 0 .. MaxExpArg] : B \in {ExpBases}}
    /\ out = <<>>
    /\ bnx = CURVE_Bnx

ExpFP ==
    /\ pc = "start" /\ in.b.field = "FP"
    /\ pc' = "done"
    /\ out' = FP_pow_call(in.b.x, in.e)
    /\ UNCHANGED <<in, bnx>>

ExpFP2 ==
    /\ pc = "start" /\ in.b.field = "FP2"
    /\ pc' = "done"
    /\ out' = FP2_pow_call(in.b.x, in.e)
    /\ UNCHANGED <<in, bnx>>

ExpFP4 ==
    /\ pc = "start" /\ in.b.field = "FP4"
    /\ pc' = "done"
    /\ out' = FP4_pow_call(in.b.x, in.e)
    /\ UNCHANGED <<in, bnx>>

ExpFP12 ==
    /\ pc = "start" /\ in.b.field = "FP12"
    /\ pc' = "done"
    /\ out' = FP12_pow_call(in.b.x, in.e)
    /\ UNCHANGED <<in, bnx>>

NextExp == ExpFP \/ ExpFP2 \/ ExpFP4 \/ ExpFP12

SpecExp == InitExp /\ [][NextExp]_vars

\* C28: FP.pow(e), FP2.pow(e), FP4.pow(e) and FP12.pow(e) leave the caller's
\* BIG e with the value it had before the call
C28_ExponentKept == pc = "done" => out.e = in.e

\* FP.pow, FP4.pow and FP12.pow leave e as it was
Exp_keptByCopy == (pc = "done" /\ in.b.field # "FP2") => out.e = in.e

\* the power of FP4.pow against repeated multiplication
RECURSIVE Exp_power4(_, _)
Exp_power4(x, e) ==
    IF e = 0 THEN FP4_one ELSE Val({FP4_mul(y, x) : y \in {Exp_power4(x, e - 1)}})

Exp_power == (pc = "done" /\ in.b.field = "FP4") => out.r = Exp_power4(in.b.x, in.e)

(***************************************************************************)
(* ECP.pinmul: the ladder, one pass of its loop per step                    *)
(***************************************************************************)
\* FP.cswap(b, d) for d of {0, 1}: the pair of this and b after the call
FP_cswap(a, b, d) == IF d = 1 THEN <<b, a>> ELSE <<a, b>>

\* a cswap that leaves the two points as they are
ECP_cswap_none(P, Q, d) == <<P, Q>>

\* P.cswap(Q, d): x, y and z are swapped one after the other
ECP_cswap(P, Q, d) ==
    <<[x |-> FP_cswap(P.x, Q.x, d)[1], y |-> FP_cswap(P.y, Q.y, d)[1], z |-> FP_cswap(P.z, Q.z, d)[1]],
      [x |-> FP_cswap(P.x, Q.x, d)[2], y |-> FP_cswap(P.y, Q.y, d)[2], z |-> FP_cswap(P.z, Q.z, d)[2]]>>

\* one pass: P.copy(R1); P.add(R0); R0.cswap(R1, b); R1.copy(P); R0.dbl();
\*           R0.cswap(R1, b);
ECP_pinmul_pass(V_, b_) ==
    Val({[V EXCEPT !.P = S, !.R0 = W[1], !.R1 = W[2], !.i = V.i - 1,
                   !.ops = <<"add", "cswap", "dbl", "cswap">>]
         : V \in {V_}, S \in {ECP_add(V_.R1, V_.R0)},
           W \in {Val({ECP_cswap(ECP_dbl(C[1]), ECP_add(V_.R1, V_.R0), b_)
                       : C \in {ECP_cswap(V_.R0, V_.R1, b_)}})}})

MaxBts == 4

\* infinity, G, 2G, 5G and -G
PinPoints == {0, 1, 2, 5, CURVE_Order - 1}

InitPin ==
    /\ pc = "start"
    /\ in \in {a \in [j : PinPoints, form : Forms, bts : 1 .. MaxBts, e : 0 .. (2 ^ MaxBts - 1)]
                  : a.e < 2 ^ a.bts}
    /\ out = <<>>
    /\ bnx = CURVE_Bnx

PinPoint ==
    /\ pc = "start"
    /\ pc' = "call"
    /\ out' = [this |-> ECP_point(in.j, in.form), RP |-> Ref_mul(Ref_G1, in.j)]
    /\ UNCHANGED <<in, bnx>>

\* P = new ECP(); R0 = new ECP(); R1.copy(this);
PinStart ==
    /\ pc = "call"
    /\ pc' = "loop"
    /\ out' = [P |-> ECP_new, R0 |-> ECP_new, R1 |-> out.this, i |-> in.bts - 1,
               ops |-> <<>>, this0 |-> out.this] @@ out
    /\ UNCHANGED <<in, bnx>>

\* for (i = bts - 1; i >= 0; i--) { b = (e >> i) & 1; ... }
PinPass ==
    /\ pc = "loop"
    /\ out.i >= 0
    /\ pc' = pc
    /\ out' = ECP_pinmul_pass(out, (in.e \div (2 ^ out.i)) % 2)
    /\ UNCHANGED <<in, bnx>>

\* P.copy(R0); P.affine(); return P;
PinEnd ==
    /\ pc = "loop"
    /\ out.i < 0
    /\ pc' = "done"
    /\ out' = [r |-> ECP_affine(out.R0), this |-> out.this, this0 |-> out.this0, RP |-> out.RP]
    /\ UNCHANGED <<in, bnx>>

NextPin == PinPoint \/ PinStart \/ PinPass \/ PinEnd

SpecPin == InitPin /\ [][NextPin]_vars

\* C29: for every point P, bit count bts and e with 0 <= e < 2^bts, after
\* each pass of ECP.pinmul R1 - R0 = P and R0 is (the bits of e consumed so
\* far) * P, so that the function returns e * P; every pass performs the
\* same operations (add, cswap, dbl, cswap) whatever the bit; the receiver
\* is left as it was
C29_Ladder ==
    /\ pc = "loop" =>
          /\ Ref_ofECP(ECP_sub(out.R1, out.R0)) = out.RP
          /\ Ref_ofECP(out.R0) = Ref_mul(out.RP, in.e \div (2 ^ (out.i + 1)))
          /\ out.i < in.bts - 1 => out.ops = <<"add", "cswap", "dbl", "cswap">>
          /\ out.this = out.this0
    /\ pc = "done" =>
          /\ Ref_ofECP(out.r) = Ref_mul(out.RP, in.e)
          /\ out.this = out.this0

\* a ladder of three passes over the bits 1, 0, 1 has returned 5 P, not infinity
C29_Witness ==
    /\ pc = "done"
    /\ in.e = 5 /\ in.bts = 3 /\ in.j = 2
    /\ ~out.r.z = 0
    /\ Ref_ofECP(out.r) = Ref_mul(Ref_G1, 10)

(***************************************************************************)
(* The signed windows of ECP.mul and ECP2.mul, one digit per step           *)
(***************************************************************************)
\* a digit taken from four bits
ECP_mul_digit_low(t) == BIG_lastbits(t, 4) - 8

\* w[i] = (t.lastbits(5) - 16);
ECP_mul_digit(t) == BIG_lastbits(t, 5) - 16

\* b >> 31 is -1 for a negative b and 0 otherwise: babs = (b ^ m) - m
ECP_select_babs(b) == IF b < 0 THEN -b ELSE b

MaxRecode == 200

\* scalars of one window and of several, around the powers of 16
RecodeScalars ==
    (1 .. MaxRecode) \cup {4094, 4095, 4096, 65535, 65536, 1048575, 16777215, 16777216, 268435455}

InitRecode ==
    /\ pc = "start"
    /\ in \in [e : RecodeScalars]
    /\ out = <<>>
    /\ bnx = CURVE_Bnx

\* make exponent odd: t = e + 1 or e + 2, C = P or 2P; nb windows
RecodeOdd ==
    /\ pc = "start"
    /\ pc' = "digits"
    /\ out' = [t0 |-> ECP_mul_t(in.e), t |-> ECP_mul_t(in.e), nb |-> ECP_mul_nb(in.e),
               C |-> IF BIG_parity(in.e + 1) = 1 THEN 1 ELSE 2, w |-> <<>>]
    /\ UNCHANGED <<in, bnx>>

\* for (i = 0; i < nb; i++) { w[i] = t.lastbits(5) - 16; t.dec(w[i]); t.norm(); t.fshr(4); }
RecodeDigit ==
    /\ pc = "digits"
    /\ Len(out.w) < out.nb
    /\ pc' = pc
    /\ out' = [out EXCEPT !.w = Append(out.w, ECP_mul_digit(out.t)),
                          !.t = (out.t - ECP_mul_digit(out.t)) \div 16]
    /\ UNCHANGED <<in, bnx>>

\* w[nb] = t.lastbits(5);
RecodeTop ==
    /\ pc = "digits"
    /\ Len(out.w) = out.nb
    /\ pc' = "done"
    /\ out' = [out EXCEPT !.w = Append(out.w, BIG_lastbits(out.t, 5))]
    /\ UNCHANGED <<in, bnx>>

NextRecode == RecodeOdd \/ RecodeDigit \/ RecodeTop

SpecRecode == InitRecode /\ [][NextRecode]_vars

\* the sum of w[i] * 16^(i-1) over the digits of the sequence w
RECURSIVE Recode_sum(_)
Recode_sum(w) == IF Len(w) = 0 THEN 0 ELSE w[1] + 16 * Recode_sum(Tail(w))

====
